---- MODULE Spec2Model ----
(***************************************************************************)
(* Incremental staleness cache of the site generator: the generational     *)
(* state store (src/src/state.rs), its persistence to the state file, the  *)
(* checksum encoding (src/src/checksum.rs) and the build driver            *)
(* (src/src/website.rs, Website::bake).                                    *)
(***************************************************************************)
EXTENDS Integers, Sequences, FiniteSets, TLC

(***************************************************************************)
(* Bounds and value domains                                                *)
(***************************************************************************)

\* Length of a base64-encoded SHA-256 hash.
BASE64_SHA256_LEN == 44

\* Byte contents of files and pages.  A and B have the same size.
Datas == {"A", "B", "C"}

\* Number of pages of the site.
NumSlugs == 2

\* Page slugs.
Slugs == {"p" \o ToString(i) : i \in 1..NumSlugs}

\* Paths of the full-rebuild (bulk) files; the second is not valid UTF-8.
BulkPaths == {"t1", "t\\xFF"}

\* Keys of the static tree, relative to the static root.
StaticKeys == {"a", "a/b.txt"}

Paths == BulkPaths \cup StaticKeys

\* Modification times run from 1 to MaxMtime.
MaxMtime == 2

Mtimes == 1..MaxMtime

(***************************************************************************)
(* Results and options                                                     *)
(***************************************************************************)

Ok(v) == [tag |-> "Ok", val |-> v]

Err(e) == [tag |-> "Err", err |-> e]

IsOk(r) == r.tag = "Ok"

None == [tag |-> "None"]

Some(v) == [tag |-> "Some", val |-> v]

\* The elements of a list, the values of a map.
Range(seq) == {seq[i] : i \in DOMAIN seq}

EmptyMap == [k \in {} |-> None]

\* HashMap::insert
MapInsert(m, k, v) == [x \in (DOMAIN m) \cup {k} |-> IF x = k THEN v ELSE m[x]]

\* HashMap::remove
MapRemove(m, k) == [x \in (DOMAIN m) \ {k} |-> m[x]]

(***************************************************************************)
(* Checksum (checksum.rs)                                                  *)
(***************************************************************************)

\* base64(sha256(data)): 44 bytes of text, distinct for distinct data.
Base64Sha256(d) == "b64sha256(" \o d \o ")"

\* The 44-byte texts that are digests of some data.
Digests == {Base64Sha256(d) : d \in Datas}

\* Checksum::from_sha256 / from_data: the fixed-size buffer holding the text.
from_data(d) == [buf |-> Base64Sha256(d)]

Checksums == {from_data(d) : d \in Datas}

\* A JSON string: its byte length and its text.
JStr(n, t) == [tag |-> "Str", len |-> n, text |-> t]

\* Checksum::as_str / Serialize for Checksum
Checksum_serialize(c) == JStr(BASE64_SHA256_LEN, c.buf)

\* A Deserialize for Checksum that takes a string of any length.
Checksum_deserialize_any_length(v) ==
    IF v.tag # "Str" THEN Err("invalid type")
    ELSE Ok([buf |-> v.text])

\* Deserialize for Checksum: a string of exactly BASE64_SHA256_LEN bytes.
Checksum_deserialize(v) ==
    IF v.tag # "Str" THEN Err("invalid type")
    ELSE IF v.len # BASE64_SHA256_LEN THEN Err("invalid length")
    ELSE Ok([buf |-> v.text])

(***************************************************************************)
(* FileState (state.rs)                                                    *)
(***************************************************************************)

Dir == [tag |-> "Dir"]

File(m, s, c) == [tag |-> "File", mtime |-> m, size |-> s, checksum |-> c]

is_file(fs) == fs.tag = "File"

\* PartialEq as derive would write it: files compare by every field.
FileState_eq_derived(a, b) == a = b

\* impl PartialEq for FileState: files compare by checksum only.
FileState_eq(a, b) ==
    CASE a.tag = "File" /\ b.tag = "File" -> a.checksum = b.checksum
      [] a.tag = "Dir" /\ b.tag = "Dir" -> TRUE
      [] OTHER -> FALSE

\* HashMap<PathBuf, FileState> equality, through FileState's PartialEq.
FileMap_eq(m1, m2) ==
    /\ DOMAIN m1 = DOMAIN m2
    /\ \A k \in DOMAIN m1 : FileState_eq(m1[k], m2[k])

\* Size in bytes of a content.
SizeOf(d) == IF d = "C" THEN 2 ELSE 1

\* Entries of the source tree as fs::metadata sees them.
Missing == [kind |-> "missing"]

DiskDir == [kind |-> "dir"]

DiskOther == [kind |-> "other"]

DiskFile(m, d) == [kind |-> "file", mtime |-> m, data |-> d]

DiskEntries ==
    {Missing, DiskDir, DiskOther} \cup {DiskFile(m, d) : m \in Mtimes, d \in Datas}

\* A regular file that cannot be read.
DiskUnreadable(d) == [kind |-> "file", mtime |-> 1, data |-> d, denied |-> TRUE]

\* Checksum::from_file: the checksum of the bytes, or the error of File::open.
Checksum_from_file(e) ==
    IF "denied" \in DOMAIN e THEN Err("permission denied") ELSE Ok(from_data(e.data))

\* FileState::from_path
FileState_from_path(e) ==
    CASE e.kind = "missing" -> Err("not found")
      [] e.kind = "dir" -> Ok(Dir)
      [] e.kind = "file" ->
            IF IsOk(Checksum_from_file(e))
            THEN Ok(File(e.mtime, SizeOf(e.data), Checksum_from_file(e).val))
            ELSE Checksum_from_file(e)
      [] OTHER -> Err("expected file or directory")

\* fast_has_changed that takes a moved mtime for a change, without hashing.
fast_has_changed_no_hash(self, e) ==
    CASE e.kind = "missing" -> Err("not found")
      [] e.kind = "dir" -> Ok(self.tag # "Dir")
      [] e.kind = "file" ->
            IF self.tag # "File" THEN Ok(TRUE)
            ELSE Ok(~(self.mtime = e.mtime /\ self.size = SizeOf(e.data)))
      [] OTHER -> Err("expected file or directory")

\* fast_has_changed that trusts an equal mtime whatever the size.
fast_has_changed_mtime_only(self, e) ==
    CASE e.kind = "missing" -> Err("not found")
      [] e.kind = "dir" -> Ok(self.tag # "Dir")
      [] e.kind = "file" ->
            IF self.tag # "File" THEN Ok(TRUE)
            ELSE IF self.mtime = e.mtime THEN Ok(FALSE)
            ELSE IF self.size # SizeOf(e.data) THEN Ok(TRUE)
            ELSE IF IsOk(Checksum_from_file(e))
            THEN Ok(self.checksum # Checksum_from_file(e).val)
            ELSE Checksum_from_file(e)
      [] OTHER -> Err("expected file or directory")

\* fast_has_changed that reports every directory changed, as
\* FileState::has_changed does.
fast_has_changed_dir_always(self, e) ==
    CASE e.kind = "missing" -> Err("not found")
      [] e.kind = "dir" -> Ok(TRUE)
      [] e.kind = "file" ->
            IF self.tag # "File" THEN Ok(TRUE)
            ELSE IF self.mtime = e.mtime /\ self.size = SizeOf(e.data) THEN Ok(FALSE)
            ELSE IF self.size # SizeOf(e.data) THEN Ok(TRUE)
            ELSE IF IsOk(Checksum_from_file(e))
            THEN Ok(self.checksum # Checksum_from_file(e).val)
            ELSE Checksum_from_file(e)
      [] OTHER -> Err("expected file or directory")

\* FileState::fast_has_changed
fast_has_changed(self, e) ==
    CASE e.kind = "missing" -> Err("not found")
      [] e.kind = "dir" -> Ok(self.tag # "Dir")
      [] e.kind = "file" ->
            IF self.tag # "File" THEN Ok(TRUE)
            ELSE IF self.mtime = e.mtime /\ self.size = SizeOf(e.data) THEN Ok(FALSE)
            ELSE IF self.size # SizeOf(e.data) THEN Ok(TRUE)
            ELSE IF IsOk(Checksum_from_file(e))
            THEN Ok(self.checksum # Checksum_from_file(e).val)
            ELSE Checksum_from_file(e)
      [] OTHER -> Err("expected file or directory")

(***************************************************************************)
(* WebsiteState (state.rs)                                                 *)
(***************************************************************************)

WebsiteState(c, i, b, s) ==
    [content_map |-> c, index_checksum |-> i, bulk_map |-> b, static_map |-> s]

\* WebsiteState::default()
WebsiteState_default == WebsiteState(EmptyMap, None, EmptyMap, EmptyMap)

\* derive(PartialEq) for WebsiteState
WebsiteState_eq(a, b) ==
    /\ a.content_map = b.content_map
    /\ a.index_checksum = b.index_checksum
    /\ FileMap_eq(a.bulk_map, b.bulk_map)
    /\ FileMap_eq(a.static_map, b.static_map)

(***************************************************************************)
(* The state file: JSON values, serialization and deserialization          *)
(***************************************************************************)

JNull == [tag |-> "Null"]

\* A JSON number where a map, a string or an array is expected.
JNum == [tag |-> "Num"]

JMap(m) == [tag |-> "Map", m |-> m]

\* A JSON array [mtime, size, checksum].
JArr(m, s, c) == [tag |-> "Arr", mtime |-> m, size |-> s, sum |-> c]

\* A JSON object: the keys present and their values.
JObj(f) == [tag |-> "Obj", fields |-> f]

\* Contents of the state file as fs::read_to_string sees it.
FileAbsent == [kind |-> "absent"]

FileUnreadable == [kind |-> "unreadable"]

\* Text that is no JSON document (empty, truncated, garbage).
FileGarbage == [kind |-> "garbage"]

FileText(doc) == [kind |-> "json", doc |-> doc]

\* Serialize for PathBuf: a path that is not valid UTF-8 is an error.
Path_is_utf8(p) == p # "t\\xFF"

\* A File written without its mtime.
FileState_serialize_without_mtime(st) ==
    IF st.tag = "Dir" THEN JNull
    ELSE JArr(0, st.size, Checksum_serialize(st.checksum))

\* Serialize for FileState (untagged): Dir is null, File is [mtime, size, checksum].
FileState_serialize(st) ==
    IF st.tag = "Dir" THEN JNull
    ELSE JArr(st.mtime, st.size, Checksum_serialize(st.checksum))

\* Deserialize for FileState (untagged): the first variant that matches.
FileState_deserialize(v) ==
    IF v.tag = "Arr" /\ IsOk(Checksum_deserialize(v.sum))
    THEN Ok(File(v.mtime, v.size, Checksum_deserialize(v.sum).val))
    ELSE IF v.tag = "Null" THEN Ok(Dir)
    ELSE Err("data did not match any variant")

\* Serialize for HashMap<_, Checksum>
ChecksumMap_serialize(m) == JMap([k \in DOMAIN m |-> Checksum_serialize(m[k])])

\* Deserialize for HashMap<String, Checksum>: fails when one value fails.
ChecksumMap_deserialize(v) ==
    IF v.tag # "Map" THEN Err("invalid type")
    ELSE IF \E k \in DOMAIN v.m : ~IsOk(Checksum_deserialize(v.m[k]))
    THEN Err("invalid value")
    ELSE Ok([k \in DOMAIN v.m |-> Checksum_deserialize(v.m[k]).val])

\* Serialize for HashMap<PathBuf, FileState>
FileMap_serialize(m) ==
    IF \E k \in DOMAIN m : ~Path_is_utf8(k)
    THEN Err("path contains invalid UTF-8 characters")
    ELSE Ok(JMap([k \in DOMAIN m |-> FileState_serialize(m[k])]))

\* A map deserializer that drops the entries it cannot read.
FileMap_deserialize_skipping(v) ==
    IF v.tag # "Map" THEN Err("invalid type")
    ELSE Ok([k \in {x \in DOMAIN v.m : IsOk(FileState_deserialize(v.m[x]))} |->
                FileState_deserialize(v.m[k]).val])

\* Deserialize for HashMap<PathBuf, FileState>: fails when one value fails.
FileMap_deserialize(v) ==
    IF v.tag # "Map" THEN Err("invalid type")
    ELSE IF \E k \in DOMAIN v.m : ~IsOk(FileState_deserialize(v.m[k]))
    THEN Err("invalid value")
    ELSE Ok([k \in DOMAIN v.m |-> FileState_deserialize(v.m[k]).val])

\* Serialize for Option<Checksum>
OptionChecksum_serialize(o) ==
    IF o.tag = "None" THEN JNull ELSE Checksum_serialize(o.val)

\* Deserialize for Option<Checksum>: null is None, anything else a Checksum.
OptionChecksum_deserialize(v) ==
    IF v.tag = "Null" THEN Ok(None)
    ELSE IF IsOk(Checksum_deserialize(v)) THEN Ok(Some(Checksum_deserialize(v).val))
    ELSE Checksum_deserialize(v)

\* serde_with::DefaultOnError: the value when it deserializes, else the default.
DefaultOnError(r, default) == IF IsOk(r) THEN r.val ELSE default

\* serde_json::to_string(&WebsiteState)
WebsiteState_serialize(g) ==
    IF ~IsOk(FileMap_serialize(g.bulk_map)) THEN FileMap_serialize(g.bulk_map)
    ELSE IF ~IsOk(FileMap_serialize(g.static_map)) THEN FileMap_serialize(g.static_map)
    ELSE Ok(JObj([f \in {"content", "index", "bulk", "static"} |->
            CASE f = "content" -> ChecksumMap_serialize(g.content_map)
              [] f = "index" -> OptionChecksum_serialize(g.index_checksum)
              [] f = "bulk" -> FileMap_serialize(g.bulk_map).val
              [] f = "static" -> FileMap_serialize(g.static_map).val]))

\* derive(Deserialize) for WebsiteState with serde(default): a missing key is
\* the default; content, bulk and static are DefaultOnError, index is not.
WebsiteState_deserialize(doc) ==
    LET has(f) == f \in DOMAIN doc.fields
        index == IF has("index") THEN OptionChecksum_deserialize(doc.fields["index"])
                 ELSE Ok(None)
    IN  IF ~IsOk(index) THEN index
        ELSE Ok(WebsiteState(
                IF has("content")
                THEN DefaultOnError(ChecksumMap_deserialize(doc.fields["content"]), EmptyMap)
                ELSE EmptyMap,
                index.val,
                IF has("bulk")
                THEN DefaultOnError(FileMap_deserialize(doc.fields["bulk"]), EmptyMap)
                ELSE EmptyMap,
                IF has("static")
                THEN DefaultOnError(FileMap_deserialize(doc.fields["static"]), EmptyMap)
                ELSE EmptyMap))

\* from_file without the NotFound arm: a missing file is an error.
WebsiteState_from_file_no_default(f) ==
    CASE f.kind = "json" -> WebsiteState_deserialize(f.doc)
      [] OTHER -> Err("io error")

\* from_file that swallows a parse error.
WebsiteState_from_file_lenient(f) ==
    CASE f.kind = "json" -> WebsiteState_deserialize(f.doc)
      [] f.kind = "garbage" -> Ok(WebsiteState_default)
      [] f.kind = "absent" -> Ok(WebsiteState_default)
      [] OTHER -> Err("io error")

\* WebsiteState::from_file
WebsiteState_from_file(f) ==
    CASE f.kind = "json" -> WebsiteState_deserialize(f.doc)
      [] f.kind = "garbage" -> Err("parse error")
      [] f.kind = "absent" -> Ok(WebsiteState_default)
      [] OTHER -> Err("io error")

\* StateManager::from_file: the store (curr, next), or the error.
StateManager_from_file(f) ==
    IF IsOk(WebsiteState_from_file(f))
    THEN Ok([curr |-> WebsiteState_from_file(f).val, next |-> WebsiteState_default])
    ELSE WebsiteState_from_file(f)

(***************************************************************************)
(* StateManager (state.rs): operations on the two generations              *)
(***************************************************************************)

\* StateManager::set_checksum: the next generation after the insert.
set_checksum(nxt, slug, c) ==
    [nxt EXCEPT !.content_map = MapInsert(@, slug, c)]

\* StateManager::unset_checksum
unset_checksum(nxt, slug) ==
    [nxt EXCEPT !.content_map = MapRemove(@, slug)]

\* StateManager::set_index_checksum
set_index_checksum(nxt, c) == [nxt EXCEPT !.index_checksum = Some(c)]

\* StateManager::bulk_has_changed
bulk_has_changed(cur, nxt) == ~FileMap_eq(cur.bulk_map, nxt.bulk_map)

\* should_rebuild without the new-page test: a slug missing from curr is
\* reported unchanged.
should_rebuild_no_new_page(cur, nxt, slug) ==
    IF bulk_has_changed(cur, nxt) THEN TRUE
    ELSE IF slug \notin DOMAIN cur.content_map THEN FALSE
    ELSE IF slug \notin DOMAIN nxt.content_map THEN TRUE
    ELSE cur.content_map[slug] # nxt.content_map[slug]

\* should_rebuild that takes a slug next lacks for unchanged.
should_rebuild_unless_unregistered(cur, nxt, slug) ==
    IF bulk_has_changed(cur, nxt) THEN TRUE
    ELSE IF slug \notin DOMAIN cur.content_map THEN TRUE
    ELSE IF slug \notin DOMAIN nxt.content_map THEN FALSE
    ELSE cur.content_map[slug] # nxt.content_map[slug]

\* StateManager::should_rebuild
should_rebuild(cur, nxt, slug) ==
    IF bulk_has_changed(cur, nxt) THEN TRUE
    ELSE IF slug \notin DOMAIN cur.content_map THEN TRUE
    ELSE IF slug \notin DOMAIN nxt.content_map THEN TRUE
    ELSE cur.content_map[slug] # nxt.content_map[slug]

\* should_rebuild_index that looks at the index checksum only.
should_rebuild_index_ignoring_bulk(cur, nxt) ==
    cur.index_checksum # nxt.index_checksum

\* StateManager::should_rebuild_index
should_rebuild_index(cur, nxt) ==
    bulk_has_changed(cur, nxt) \/ cur.index_checksum # nxt.index_checksum

\* StateManager::fast_get_new_file_state_and_check_if_changed, for the entry e
\* found at the path: the new state and whether it changed, or the error.
fast_get_new_file_state_and_check_if_changed(e, key, curr_map) ==
    IF key \in DOMAIN curr_map
    THEN IF ~IsOk(fast_has_changed(curr_map[key], e))
         THEN fast_has_changed(curr_map[key], e)
         ELSE IF fast_has_changed(curr_map[key], e).val
              THEN IF IsOk(FileState_from_path(e))
                   THEN Ok([state |-> FileState_from_path(e).val, has_changed |-> TRUE])
                   ELSE FileState_from_path(e)
              ELSE Ok([state |-> curr_map[key], has_changed |-> FALSE])
    ELSE IF IsOk(FileState_from_path(e))
         THEN Ok([state |-> FileState_from_path(e).val, has_changed |-> TRUE])
         ELSE FileState_from_path(e)

\* The filter_map closure of fast_get_new_file_state_map_and_check_if_changed
\* applied to the paths in order: a path that fails is skipped, the flag is
\* assigned (not or-ed) by every path that succeeds.
RECURSIVE fast_get_map_fold(_, _, _, _)
fast_get_map_fold(paths, curr_map, dsk, acc) ==
    IF paths = <<>> THEN acc
    ELSE LET path == Head(paths)
             r == fast_get_new_file_state_and_check_if_changed(dsk[path], path, curr_map)
         IN  fast_get_map_fold(Tail(paths), curr_map, dsk,
                IF IsOk(r)
                THEN [map |-> MapInsert(acc.map, path, r.val.state),
                      has_changed |-> r.val.has_changed]
                ELSE acc)

\* StateManager::fast_get_new_file_state_map_and_check_if_changed
fast_get_new_file_state_map_and_check_if_changed(paths, curr_map, dsk) ==
    fast_get_map_fold(paths, curr_map, dsk, [map |-> EmptyMap, has_changed |-> FALSE])

\* commit that swaps the generations instead of taking next.
commit_swap(cur, nxt) == [curr |-> nxt, next |-> cur]

\* StateManager::commit: curr takes next, next is left default.
commit(cur, nxt) == [curr |-> nxt, next |-> WebsiteState_default]

\* Outcomes of fs::write(path, data): the file is opened with truncation and
\* the data written; it can fail before the open or after the truncation.
FsWriteOutcomes == {"ok", "open_failed", "write_failed"}

\* fs::write: the result and the file afterwards.
fs_write(f, data, outcome) ==
    CASE outcome = "ok" -> [res |-> Ok("unit"), file |-> FileText(data), opened |-> TRUE]
      [] outcome = "open_failed" -> [res |-> Err("io error"), file |-> f, opened |-> FALSE]
      [] OTHER -> [res |-> Err("io error"), file |-> FileGarbage, opened |-> TRUE]

\* commit() reached whatever fs::write returned.
commit_after_write_always(res, cur, nxt) == commit(cur, nxt)

\* The tail of write_state_file_and_commit: `?` on the result of fs::write
\* returns early, otherwise commit().
commit_after_write(res, cur, nxt) ==
    IF IsOk(res) THEN commit(cur, nxt) ELSE [curr |-> cur, next |-> nxt]

\* StateManager::write_state_file_and_commit with the outcome o of fs::write:
\* the result, the generations and the file afterwards.
write_state_file_and_commit(cur, nxt, f, o) ==
    LET data == WebsiteState_serialize(nxt)
    IN  IF ~IsOk(data)
        THEN [res |-> data, curr |-> cur, next |-> nxt, file |-> f, opened |-> FALSE]
        ELSE LET w == fs_write(f, data.val, o)
                 c == commit_after_write(w.res, cur, nxt)
             IN  [res |-> w.res, curr |-> c.curr, next |-> c.next, file |-> w.file,
                  opened |-> w.opened]

(***************************************************************************)
(* State                                                                   *)
(***************************************************************************)

VARIABLES
    file,   \* contents of the state file
    st,     \* the process: "none" (not started), "ok" (store built), "failed"
    curr,   \* StateManager.curr
    next,   \* StateManager.next
    disk,   \* the source tree: path -> entry
    pages,  \* the content directory: file -> page source
    ret,    \* the last operation, its arguments and what it returned
    reg,    \* history: slug -> the checksum last registered in this run
    prev,   \* history: how the previous process ended
    bk,     \* local state of Website::bake
    par,    \* local state of Checksum::from_globs_par and of its workers
    output  \* the output directory: path -> what the build put there

vars == <<file, st, curr, next, disk, pages, ret, reg, prev, bk, par, output>>

Call(op, arg, val) == [op |-> op, arg |-> arg, val |-> val]

NoReg == [s \in Slugs |-> None]

NoPrev == [gen |-> WebsiteState_default, write_failed |-> FALSE]

\* bake is not running.
BakeIdle == [pc |-> "idle"]

\* from_globs_par is not running.
ParIdle == [pc |-> "idle"]

(***************************************************************************)
(* Operations of the store, called in any order                            *)
(***************************************************************************)

\* The store exists and its owner is still running: an error returned by
\* write_state_file_and_commit is propagated by bake and ends the process.
Alive ==
    /\ st = "ok"
    /\ ~(ret.op = "write_state_file_and_commit" /\ ret.val = "Err")

\* A process starts and builds the store: StateManager::from_file.
Load ==
    /\ st = "none"
    /\ LET r == StateManager_from_file(file)
       IN  /\ st' = IF IsOk(r) THEN "ok" ELSE "failed"
           /\ curr' = IF IsOk(r) THEN r.val.curr ELSE WebsiteState_default
           /\ next' = IF IsOk(r) THEN r.val.next ELSE WebsiteState_default
           /\ ret' = [op |-> "from_file", arg |-> file, val |-> r.tag, prev |-> prev]
    /\ reg' = NoReg
    /\ prev' = NoPrev
    /\ UNCHANGED <<output, par, file, disk, pages, bk>>

\* The process ends; the store is dropped.
Exit ==
    /\ st \in {"ok", "failed"}
    /\ st' = "none"
    /\ prev' = [gen |-> curr,
                write_failed |-> ret.op = "write_state_file_and_commit" /\ ret.val = "Err"]
    /\ curr' = WebsiteState_default
    /\ next' = WebsiteState_default
    /\ ret' = Call("exit", "-", "-")
    /\ reg' = NoReg
    /\ UNCHANGED <<output, par, file, disk, pages, bk>>

SetChecksum ==
    /\ Alive
    /\ \E slug \in Slugs, d \in Datas \ {"C"} :
          /\ next' = set_checksum(next, slug, from_data(d))
          /\ reg' = [reg EXCEPT ![slug] = Some(from_data(d))]
          /\ ret' = Call("set_checksum", "-", "unit")
    /\ UNCHANGED <<output, par, file, st, curr, disk, pages, prev, bk>>

UnsetChecksum ==
    /\ Alive
    /\ \E slug \in Slugs :
          /\ next' = unset_checksum(next, slug)
          /\ reg' = [reg EXCEPT ![slug] = None]
          /\ ret' = Call("unset_checksum", "-", "unit")
    /\ UNCHANGED <<output, par, file, st, curr, disk, pages, prev, bk>>

ShouldRebuild ==
    /\ Alive
    /\ \E slug \in Slugs :
          ret' = Call("should_rebuild", slug, should_rebuild(curr, next, slug))
    /\ UNCHANGED <<output, par, file, st, curr, next, disk, pages, reg, prev, bk>>

\* The index checksum of a run; the old state files hold another one.
SetIndexChecksum ==
    /\ Alive
    /\ \E d \in {"B"} :
          /\ next' = set_index_checksum(next, from_data(d))
          /\ ret' = Call("set_index_checksum", "-", "unit")
    /\ UNCHANGED <<output, par, file, st, curr, disk, pages, reg, prev, bk>>

ShouldRebuildIndex ==
    /\ Alive
    /\ ret' = Call("should_rebuild_index", "-", should_rebuild_index(curr, next))
    /\ UNCHANGED <<output, par, file, st, curr, next, disk, pages, reg, prev, bk>>

\* The path lists handed to fast_set_next_bulk_and_check_if_changed.
BulkPathLists == {<<>>, <<"t1">>, <<"t1", "t\\xFF">>}

\* StateManager::fast_set_next_bulk_and_check_if_changed
FastSetNextBulk ==
    /\ Alive
    /\ \E paths \in BulkPathLists :
          LET r == fast_get_new_file_state_map_and_check_if_changed(
                       paths, curr.bulk_map, disk)
          IN  /\ next' = [next EXCEPT !.bulk_map = r.map]
              /\ ret' = Call("fast_set_next_bulk_and_check_if_changed", paths,
                             r.has_changed)
    /\ UNCHANGED <<output, par, file, st, curr, disk, pages, reg, prev, bk>>

\* StateManager::write_state_file_and_commit
WriteStateFileAndCommit ==
    /\ Alive
    /\ \E o \in FsWriteOutcomes :
          LET w == write_state_file_and_commit(curr, next, file, o)
              pre == [curr |-> curr, next |-> next, file |-> file,
                      same |-> WebsiteState_eq(curr, next)]
          IN  /\ file' = w.file
              /\ curr' = w.curr
              /\ next' = w.next
              /\ reg' = IF IsOk(w.res) THEN NoReg ELSE reg
              /\ ret' = [op |-> "write_state_file_and_commit", arg |-> pre,
                         val |-> w.res.tag, opened |-> w.opened]
    /\ UNCHANGED <<output, par, st, disk, pages, prev, bk>>

\* Generations a state file written by an earlier run may hold: the bulk
\* file as it is now, or an older content of it.
OldGenerations ==
    {WebsiteState([s \in {"p1"} |-> from_data("A")], Some(from_data("A")),
                  [p \in {"t1"} |-> f], EmptyMap)
        : f \in {File(1, SizeOf("B"), from_data("B")), File(2, SizeOf("A"), from_data("A"))}}

\* The state files a first run may find.
InitFiles ==
    {FileAbsent, FileGarbage}
        \cup {FileText(WebsiteState_serialize(g).val) : g \in OldGenerations}

\* The source tree: one bulk file, touched since the state file was written,
\* and one bulk file whose name is not UTF-8.
InitDisk ==
    [p \in Paths |->
        CASE p = "t1" -> DiskFile(2, "A")
          [] p = "t\\xFF" -> DiskFile(1, "A")
          [] OTHER -> Missing]

Init ==
    /\ file \in InitFiles
    /\ st = "none"
    /\ curr = WebsiteState_default
    /\ next = WebsiteState_default
    /\ disk = InitDisk
    /\ pages = EmptyMap
    /\ ret = Call("none", "-", "-")
    /\ reg = NoReg
    /\ prev = NoPrev
    /\ bk = BakeIdle
    /\ par = ParIdle
    /\ output = EmptyMap

(***************************************************************************)
(* Loading state files of every shape                                      *)
(***************************************************************************)

GoodSum == JStr(BASE64_SHA256_LEN, Base64Sha256("A"))

ShortSum == JStr(BASE64_SHA256_LEN - 1, "short")

LongSum == JStr(BASE64_SHA256_LEN + 1, "long")

\* Values found under "content".
RawContents ==
    {JNum, JNull}
        \cup {JMap(m) : m \in UNION {[S -> {GoodSum, ShortSum, LongSum}] : S \in SUBSET Slugs}}

\* Values found under "index".
RawIndexes == {JNull, GoodSum, ShortSum, LongSum, JNum}

\* Values found under "bulk".
RawBulks ==
    {JNum, JMap(EmptyMap)}
        \cup {JMap([p \in {"t1"} |-> x]) :
                x \in {JNull, JNum, GoodSum, JArr(1, 1, GoodSum), JArr(1, 1, ShortSum)}}

\* Values found under "static".
RawStatics ==
    {JNum, JMap(EmptyMap)}
        \cup {JMap([p \in StaticKeys |-> IF p = "a" THEN JNull ELSE x]) :
                x \in {JArr(2, 2, GoodSum), JArr(2, 2, LongSum)}}

DocKeys == {"content", "index", "bulk", "static"}

\* The key is not in the document.
KeyAbsent == [tag |-> "Absent"]

\* The JSON object with the given values under the four keys, a key whose
\* value is KeyAbsent left out.
RawDoc(c, i, b, s) ==
    LET v == [f \in DocKeys |->
                CASE f = "content" -> c [] f = "index" -> i [] f = "bulk" -> b [] OTHER -> s]
    IN  JObj([f \in {k \in DocKeys : v[k] # KeyAbsent} |-> v[f]])

\* JSON objects with any of the four keys present.
RawDocs ==
    {RawDoc(c, i, b, s) :
        c \in RawContents \cup {KeyAbsent}, i \in RawIndexes \cup {KeyAbsent},
        b \in RawBulks \cup {KeyAbsent}, s \in RawStatics \cup {KeyAbsent}}

RawFiles == {FileAbsent, FileUnreadable, FileGarbage} \cup {FileText(d) : d \in RawDocs}

InitLoad ==
    /\ file \in RawFiles
    /\ st = "none"
    /\ curr = WebsiteState_default
    /\ next = WebsiteState_default
    /\ disk = InitDisk
    /\ pages = EmptyMap
    /\ ret = Call("none", "-", "-")
    /\ reg = NoReg
    /\ prev = NoPrev
    /\ bk = BakeIdle
    /\ par = ParIdle
    /\ output = EmptyMap

NextLoad ==
    \/ Load
    \/ Exit

SpecLoad == InitLoad /\ [][NextLoad]_vars

(***************************************************************************)
(* Website::bake (website.rs): runs of the generator over a source tree    *)
(***************************************************************************)

\* get_slugs_to_delete with the difference taken the other way round.
get_slugs_to_delete_reversed(cur, nxt) ==
    IF DOMAIN cur.content_map = {} THEN {}
    ELSE {s \in DOMAIN nxt.content_map : s \notin DOMAIN cur.content_map}

\* StateManager::get_slugs_to_delete: the slugs of curr that next lacks (the
\* Vec is collected from a HashSet difference, in no particular order).
get_slugs_to_delete(cur, nxt) ==
    IF DOMAIN cur.content_map = {} THEN {}
    ELSE {s \in DOMAIN cur.content_map : s \notin DOMAIN nxt.content_map}

\* The same, deciding against next's static map instead of curr's.
fast_set_next_static_against_next(cur, nxt, e, key) ==
    LET r == fast_get_new_file_state_and_check_if_changed(e, key, nxt.static_map)
    IN  IF IsOk(r)
        THEN Ok([next |-> [nxt EXCEPT !.static_map = MapInsert(@, key, r.val.state)],
                 has_changed |-> r.val.has_changed])
        ELSE r

\* StateManager::fast_set_next_static_file_state_and_check_if_changed for the
\* entry e found under the key: the next generation and the flag, or the error.
fast_set_next_static_file_state_and_check_if_changed(cur, nxt, e, key) ==
    LET r == fast_get_new_file_state_and_check_if_changed(e, key, cur.static_map)
    IN  IF IsOk(r)
        THEN Ok([next |-> [nxt EXCEPT !.static_map = MapInsert(@, key, r.val.state)],
                 has_changed |-> r.val.has_changed])
        ELSE r

\* A markdown file of the content directory: its text, the date of its front
\* matter and what the pipeline makes of it.
PageSource(data, date, kind) == [data |-> data, date |-> date, kind |-> kind]

\* "unreadable": fs::read_to_string fails; "no_front_matter": the file does
\* not parse, has no front matter or is a draft; "bad_shortcode":
\* render_shortcodes fails; "bad_image": postprocess_html fails.
PageSources ==
    {PageSource("A", 1, "ok"), PageSource("B", 2, "ok"),
     PageSource("A", 1, "unreadable"), PageSource("A", 1, "no_front_matter"),
     PageSource("A", 2, "bad_shortcode"), PageSource("A", 2, "bad_image")}

\* The markdown files, as the glob of bake lists them after its sort by
\* creation time; the slug of a page is its file stem.
ContentOrder == <<"p1", "p2">>

ContentFiles == {ContentOrder[i] : i \in DOMAIN ContentOrder}

ContentDirs == UNION {[S -> PageSources] : S \in SUBSET ContentFiles}

content_paths(pgs) == SelectSeq(ContentOrder, LAMBDA f : f \in DOMAIN pgs)

\* The paths matched by FULL_REBUILD_GLOBS that are files.
BulkOrder == <<"t1", "t\\xFF">>

full_rebuild_paths(dsk) == SelectSeq(BulkOrder, LAMBDA p : dsk[p].kind = "file")

\* The entries of the static directory in the order of the walk, a directory
\* before what it holds.
StaticOrder == <<"a", "a/b.txt">>

\* The directory of the static tree that holds the entry, "" for the root.
StaticParent(key) == IF key = "a/b.txt" THEN "a" ELSE ""

\* Keys of a static tree two directories deep, relative to the static root.
StaticTree == {"a", "a/b.txt", "a/c", "a/c/d.txt"}

\* path.components().count()
components_count(key) ==
    CASE key = "a/c/d.txt" -> 3
      [] key \in {"a/b.txt", "a/c"} -> 2
      [] OTHER -> 1

\* The orders in which the elements of a HashSet can be iterated.
Orderings(S) ==
    {seq \in [1..Cardinality(S) -> S] : {seq[i] : i \in DOMAIN seq} = S}

\* The Vec get_slugs_to_delete collects, for each iteration order of the
\* difference.
get_slugs_to_delete_vecs(cur, nxt) == Orderings(get_slugs_to_delete(cur, nxt))

\* Every key of curr's static map, whether next holds it or not.
stale_static_keys_all(cur, nxt) == DOMAIN cur.static_map

\* The keys of curr's static map that next's static map lacks.
stale_static_keys(cur, nxt) ==
    IF DOMAIN cur.static_map = {} THEN {}
    ELSE {k \in DOMAIN cur.static_map : k \notin DOMAIN nxt.static_map}

\* The place of a key in a list sorted by ascending depth.
RECURSIVE insert_by_depth_ascending(_, _)
insert_by_depth_ascending(sorted, key) ==
    IF sorted = <<>> THEN <<key>>
    ELSE IF components_count(Head(sorted)) <= components_count(key)
         THEN <<Head(sorted)>> \o insert_by_depth_ascending(Tail(sorted), key)
         ELSE <<key>> \o sorted

\* The place of a key in a list sorted by Reverse(depth): behind the keys
\* that are not shallower (the sort is stable).
RECURSIVE insert_by_depth(_, _)
insert_by_depth(sorted, key) ==
    IF sorted = <<>> THEN <<key>>
    ELSE IF components_count(Head(sorted)) >= components_count(key)
         THEN <<Head(sorted)>> \o insert_by_depth(Tail(sorted), key)
         ELSE <<key>> \o sorted

\* stale_files.sort_by_key(|(path, _)| Reverse(path.components().count()))
RECURSIVE sort_by_depth(_)
sort_by_depth(keys) ==
    IF keys = <<>> THEN <<>>
    ELSE insert_by_depth(sort_by_depth(SubSeq(keys, 1, Len(keys) - 1)), keys[Len(keys)])

\* StateManager::get_stale_static_files_in_order_of_deletion, the difference
\* being iterated in the order iter: (key, is_file) tuples.
get_stale_static_files_in_order_of_deletion(cur, iter) ==
    [i \in DOMAIN iter |->
        <<sort_by_depth(iter)[i], is_file(cur.static_map[sort_by_depth(iter)[i]])>>]

\* The paths of the output directory, relative to it: the copies of the
\* static tree and index.html of a page whose slug is a.
OutputPaths == StaticTree \cup {"a/index.html"}

\* The directory of the output tree that holds the path, "" for the root.
OutputParent(path) ==
    CASE path \in {"a/b.txt", "a/c", "a/index.html"} -> "a"
      [] path = "a/c/d.txt" -> "a/c"
      [] OTHER -> ""

\* Whether the path of the output tree is a directory when it exists.
OutputIsDir(path) == path \in {"a", "a/c"}

\* The output trees: the sets of paths that exist, each inside a directory
\* that exists.
OutputTrees ==
    {out \in SUBSET OutputPaths :
        \A q \in out : OutputParent(q) = "" \/ OutputParent(q) \in out}

\* fs::remove_file: the tree without the file, or an error if the path is
\* missing or a directory.
remove_file(out, path) ==
    IF path \in out /\ ~OutputIsDir(path) THEN Ok(out \ {path}) ELSE Err("io")

\* fs::remove_dir_all in the place of fs::remove_dir.
remove_dir_all(out, path) ==
    IF path \in out /\ OutputIsDir(path)
    THEN Ok({q \in out : q # path /\ OutputParent(q) # path
                                  /\ OutputParent(OutputParent(q)) # path})
    ELSE Err("io")

\* fs::remove_dir: the tree without the directory, or an error if the path is
\* missing, a file, or a directory that is not empty.
remove_dir(out, path) ==
    IF path \in out /\ OutputIsDir(path) /\ \A q \in out : OutputParent(q) # path
    THEN Ok(out \ {path})
    ELSE Err("io")

\* copy_static_files, the loop over the stale files (website.rs:443-458): the
\* output tree after it and the paths removed, in the order of removal.
RECURSIVE delete_stale_static_files(_, _, _)
delete_stale_static_files(stale_files, out, removed) ==
    IF stale_files = <<>> THEN [out |-> out, removed |-> removed]
    ELSE LET stale_file == Head(stale_files)[1]
             r == IF Head(stale_files)[2]
                  THEN remove_file(out, stale_file)
                  ELSE remove_dir(out, stale_file)
         IN  IF IsOk(r)
             THEN delete_stale_static_files(Tail(stale_files), r.val,
                                            Append(removed, stale_file))
             ELSE delete_stale_static_files(Tail(stale_files), out, removed)

\* What the build puts at a path of the output directory.
OutputFile(data) == [kind |-> "file", data |-> data]

OutputDir == [kind |-> "dir"]

\* What fs::copy and fs::create_dir_all do for each entry of the walk: the
\* output directory can refuse the write (no space, no permission). The walk
\* never meets both failures: a directory that could not be created is not
\* walked, and one that exists is not created.
CopyOutcomes ==
    {io \in [StaticKeys -> {"ok", "io_error"}] :
        \E key \in StaticKeys : io[key] = "ok"}

\* fs::copy(entry_path, dest_path): the output tree with the bytes of the
\* file at the path; it fails when the destination directory is missing.
fs_copy(out, key, e, outcome) ==
    IF /\ outcome = "ok"
       /\ StaticParent(key) = "" \/ StaticParent(key) \in DOMAIN out
    THEN Ok(MapInsert(out, key, OutputFile(e.data)))
    ELSE Err("io")

\* fs::create_dir_all(dest_path): the output tree with the directory, left
\* as it is when the directory exists.
fs_create_dir_all(out, key, outcome) ==
    IF outcome = "ok"
    THEN Ok(IF key \in DOMAIN out THEN out ELSE MapInsert(out, key, OutputDir))
    ELSE Err("io")

\* The walk that registers the files it meets and no directory.
RECURSIVE copy_static_dir_recursive_files_only(_, _, _, _, _, _)
copy_static_dir_recursive_files_only(keys, cur, nxt, dsk, out, io) ==
    IF keys = <<>> THEN [res |-> Ok("unit"), next |-> nxt, out |-> out]
    ELSE LET key == Head(keys)
             listed == /\ dsk[key].kind # "missing"
                       /\ StaticParent(key) = "" \/ dsk[StaticParent(key)].kind = "dir"
             r == fast_set_next_static_file_state_and_check_if_changed(
                      cur, nxt, dsk[key], key)
             c == fs_copy(out, key, dsk[key], io[key])
             d == fs_create_dir_all(out, key, io[key])
         IN  IF ~listed \/ dsk[key].kind \notin {"file", "dir"}
             THEN copy_static_dir_recursive_files_only(Tail(keys), cur, nxt, dsk, out, io)
             ELSE IF dsk[key].kind = "dir"
             THEN copy_static_dir_recursive_files_only(
                      Tail(keys), cur, nxt, dsk, IF IsOk(d) THEN d.val ELSE out, io)
             ELSE IF ~IsOk(r)
             THEN [res |-> r, next |-> nxt, out |-> out]
             ELSE copy_static_dir_recursive_files_only(
                      Tail(keys), cur, r.val.next, dsk,
                      IF r.val.has_changed /\ IsOk(c) THEN c.val ELSE out, io)

\* _copy_static_dir_recursive (website.rs:468-554) over the entries in the
\* order of the walk: every file and directory read_dir lists is registered
\* in next, an error of the store ends the walk (`?`); a file that changed is
\* copied and a failed copy only logged; a directory that changed is created,
\* and left without being walked when that fails (`continue`). The result,
\* next and the output tree when the walk returns.
RECURSIVE copy_static_dir_recursive(_, _, _, _, _, _)
copy_static_dir_recursive(keys, cur, nxt, dsk, out, io) ==
    IF keys = <<>> THEN [res |-> Ok("unit"), next |-> nxt, out |-> out]
    ELSE LET key == Head(keys)
             listed == /\ dsk[key].kind # "missing"
                       /\ StaticParent(key) = "" \/ dsk[StaticParent(key)].kind = "dir"
             r == fast_set_next_static_file_state_and_check_if_changed(
                      cur, nxt, dsk[key], key)
             c == fs_copy(out, key, dsk[key], io[key])
             d == fs_create_dir_all(out, key, io[key])
             outside == SelectSeq(Tail(keys), LAMBDA k : StaticParent(k) # key)
         IN  IF ~listed \/ dsk[key].kind \notin {"file", "dir"}
             THEN copy_static_dir_recursive(Tail(keys), cur, nxt, dsk, out, io)
             ELSE IF ~IsOk(r)
             THEN [res |-> r, next |-> nxt, out |-> out]
             ELSE IF ~r.val.has_changed
             THEN copy_static_dir_recursive(Tail(keys), cur, r.val.next, dsk, out, io)
             ELSE IF dsk[key].kind = "file"
             THEN copy_static_dir_recursive(Tail(keys), cur, r.val.next, dsk,
                                            IF IsOk(c) THEN c.val ELSE out, io)
             ELSE IF IsOk(d)
             THEN copy_static_dir_recursive(Tail(keys), cur, r.val.next, dsk, d.val, io)
             ELSE copy_static_dir_recursive(outside, cur, r.val.next, dsk, out, io)

\* One entry of the history of calls.
Op(op, arg) == <<op, arg>>

\* The entries the walk of the static directory hands to the store, in the
\* order of the walk.
static_walk(keys, dsk) ==
    SelectSeq(keys, LAMBDA key :
        /\ dsk[key].kind \in {"file", "dir"}
        /\ StaticParent(key) = "" \/ dsk[StaticParent(key)].kind = "dir")

\* The stale list is taken before the static directory is walked.
copy_static_files_calls_stale_first(keys, dsk) ==
    <<Op("get_stale_static_files_in_order_of_deletion", "-"),
      Op("delete_stale_static_files", "-")>>
        \o [i \in DOMAIN static_walk(keys, dsk) |->
               Op("fast_set_next_static_file_state_and_check_if_changed",
                  static_walk(keys, dsk)[i])]

\* copy_static_files (website.rs:437-458): the calls of the walk, then the
\* stale list and its deletion.
copy_static_files_calls(keys, dsk) ==
    [i \in DOMAIN static_walk(keys, dsk) |->
        Op("fast_set_next_static_file_state_and_check_if_changed",
           static_walk(keys, dsk)[i])]
        \o <<Op("get_stale_static_files_in_order_of_deletion", "-"),
              Op("delete_stale_static_files", "-")>>

\* PartialPage of a page (page.rs): slug, title, date and draft.
PartialPage(slug, src) == [slug |-> slug, date |-> src.date]

\* serde_json::to_string of a PartialPage
PartialPage_json(pp) ==
    "{slug:" \o pp.slug \o ",title:null,date:" \o ToString(pp.date) \o ",draft:false}"

\* serde_json::to_string(&page_bundle.pages()): the elements, then the array.
RECURSIVE pages_json_items(_)
pages_json_items(pps) ==
    IF pps = <<>> THEN ""
    ELSE IF Len(pps) = 1 THEN PartialPage_json(Head(pps))
    ELSE PartialPage_json(Head(pps)) \o "," \o pages_json_items(Tail(pps))

pages_json(pps) == "[" \o pages_json_items(pps) \o "]"

\* The place of a page in a list sorted by date, newest first: behind the
\* pages that are not older (the sort is stable).
RECURSIVE insert_by_date(_, _)
insert_by_date(sorted, pp) ==
    IF sorted = <<>> THEN <<pp>>
    ELSE IF Head(sorted).date >= pp.date
         THEN <<Head(sorted)>> \o insert_by_date(Tail(sorted), pp)
         ELSE <<pp>> \o sorted

\* PageBundle::sort_pages
RECURSIVE sort_pages(_)
sort_pages(pps) ==
    IF pps = <<>> THEN <<>>
    ELSE insert_by_date(sort_pages(SubSeq(pps, 1, Len(pps) - 1)), pps[Len(pps)])

\* What the file system and the templates answer while a page is built:
\* every call succeeds, read_dir of the page directory fails (not with
\* NotFound), create_dir or File::create fails, or the page template fails.
PageIo == {"ok", "read_dir_failed", "io_error", "template_failed"}

\* What the file system and the templates answer to the rendering of the
\* index and of the 404 page.
RenderIo == {"ok", "io_error"}

\* No run has ended yet.
NoRun == [committed |-> FALSE]

\* How a run ended: whether write_state_file_and_commit returned Ok, the
\* inputs it ran over and the generation it committed.
RunEnd(committed) ==
    [committed |-> committed, pages |-> pages, disk |-> disk,
     gen |-> IF committed THEN next ELSE WebsiteState_default]

\* The position of bake and its locals: the content paths still to visit,
\* page_bundle, should_full_rebuild, whether the run follows a committed run
\* over the same inputs, and how the last run ended. History of the run: the
\* slugs whose processing failed after set_checksum registered them, and the
\* operations of the store and the deletions, in the order bake made them.
Bake(pc, todo, bundle, full, same, last) ==
    [pc |-> pc, todo |-> todo, bundle |-> bundle, full |-> full, same |-> same,
     last |-> last, failed |-> {}, calls |-> <<>>]

BakeExited == Bake("exited", <<>>, <<>>, FALSE, FALSE, NoRun)

\* bake returns: with an error, or after write_state_file_and_commit.
BakeReturn(committed) ==
    [bk EXCEPT !.pc = "done", !.todo = <<>>, !.last = RunEnd(committed)]

\* Website::init: the store is built from the state file, then bake starts.
WebsiteInit ==
    /\ st = "none"
    /\ bk.pc = "exited"
    /\ LET r == StateManager_from_file(file)
       IN  /\ st' = IF IsOk(r) THEN "ok" ELSE "failed"
           /\ curr' = IF IsOk(r) THEN r.val.curr ELSE WebsiteState_default
           /\ next' = IF IsOk(r) THEN r.val.next ELSE WebsiteState_default
           /\ ret' = [op |-> "from_file", arg |-> file, val |-> r.tag, prev |-> prev]
           /\ bk' = IF IsOk(r)
                    THEN Bake("bulk", content_paths(pages), <<>>, FALSE,
                              /\ bk.last.committed
                              /\ bk.last.pages = pages
                              /\ bk.last.disk = disk,
                              bk.last)
                    ELSE bk
    /\ UNCHANGED <<output, par, file, disk, pages, reg, prev>>

\* bake, the full-rebuild check (website.rs:199-214).
BakeBulk ==
    /\ st = "ok"
    /\ bk.pc = "bulk"
    /\ LET r == fast_get_new_file_state_map_and_check_if_changed(
                    full_rebuild_paths(disk), curr.bulk_map, disk)
       IN  /\ next' = [next EXCEPT !.bulk_map = r.map]
           /\ ret' = Call("fast_set_next_bulk_and_check_if_changed",
                          full_rebuild_paths(disk), r.has_changed)
           /\ bk' = [bk EXCEPT !.pc = "pages", !.full = r.has_changed,
                               !.calls = Append(@,
                                   Op("fast_set_next_bulk_and_check_if_changed", "-"))]
    /\ UNCHANGED <<output, par, file, st, curr, disk, pages, reg, prev>>

\* The page is asked about before it is registered.
should_rebuild_then_set_checksum(cur, nxt, slug, checksum) ==
    [next |-> set_checksum(nxt, slug, checksum),
     rebuild |-> should_rebuild(cur, nxt, slug),
     calls |-> <<Op("should_rebuild", slug), Op("set_checksum", slug)>>]

\* bake, website.rs:265-269: the page is registered in next, then
\* should_rebuild is asked.
set_checksum_then_should_rebuild(cur, nxt, slug, checksum) ==
    LET registered == set_checksum(nxt, slug, checksum)
    IN  [next |-> registered,
         rebuild |-> should_rebuild(cur, registered, slug),
         calls |-> <<Op("set_checksum", slug), Op("should_rebuild", slug)>>]

\* What one iteration of the loop over the content paths reports: whether
\* the slug was registered, what should_rebuild said, the step that failed
\* and how the iteration ended.
PageCall(slug, registered, rebuild, step, result) ==
    [op |-> "bake_page", arg |-> slug, registered |-> registered,
     should_rebuild |-> rebuild, step |-> step, result |-> result]

\* bake, one iteration of the loop over the content paths (website.rs:225-345).
BakePage ==
    /\ st = "ok"
    /\ bk.pc = "pages"
    /\ bk.todo # <<>>
    /\ \E io \in PageIo :
          LET slug == Head(bk.todo)
              src == pages[slug]
              sr == set_checksum_then_should_rebuild(curr, next, slug,
                                                     from_data(src.data))
              registered == sr.next
              rebuild == sr.rebuild
              skipped == [bk EXCEPT !.todo = Tail(@)]
              called == [skipped EXCEPT !.calls = @ \o sr.calls]
              added == [called EXCEPT !.bundle = Append(@, PartialPage(slug, src))]
              failed == [called EXCEPT !.failed = @ \cup {slug}]
              returned == [BakeReturn(FALSE) EXCEPT !.failed = @ \cup {slug},
                                                   !.calls = @ \o sr.calls]
          IN  CASE src.kind = "unreadable" ->
                     /\ next' = next
                     /\ bk' = skipped
                     /\ ret' = PageCall(slug, FALSE, "-", "read_to_string", "continue")
                [] src.kind = "no_front_matter" ->
                     /\ next' = next
                     /\ bk' = skipped
                     /\ ret' = PageCall(slug, FALSE, "-", "front_matter", "continue")
                [] src.kind \notin {"unreadable", "no_front_matter"} /\ ~rebuild ->
                     /\ next' = registered
                     /\ bk' = added
                     /\ ret' = PageCall(slug, TRUE, FALSE, "-", "unchanged")
                [] OTHER ->
                     CASE io = "read_dir_failed" ->
                            /\ next' = registered
                            /\ bk' = failed
                            /\ ret' = PageCall(slug, TRUE, TRUE, "read_dir", "continue")
                       [] io = "io_error" ->
                            /\ next' = registered
                            /\ bk' = returned
                            /\ ret' = PageCall(slug, TRUE, TRUE, "create", "Err")
                       [] io \in {"ok", "template_failed"} /\ src.kind = "bad_shortcode" ->
                            /\ next' = unset_checksum(registered, slug)
                            /\ bk' = [failed EXCEPT !.calls =
                                         Append(@, Op("unset_checksum", slug))]
                            /\ ret' = PageCall(slug, TRUE, TRUE, "shortcodes", "continue")
                       [] io = "template_failed" /\ src.kind # "bad_shortcode" ->
                            /\ next' = registered
                            /\ bk' = returned
                            /\ ret' = PageCall(slug, TRUE, TRUE, "template", "Err")
                       [] io = "ok" /\ src.kind = "bad_image" ->
                            /\ next' = registered
                            /\ bk' = failed
                            /\ ret' = PageCall(slug, TRUE, TRUE, "postprocess", "continue")
                       [] OTHER ->
                            /\ next' = registered
                            /\ bk' = [added EXCEPT !.calls =
                                         Append(@, Op("remove_file", slug))]
                            /\ ret' = PageCall(slug, TRUE, TRUE, "-", "built")
    /\ UNCHANGED <<output, par, file, st, curr, disk, pages, reg, prev>>

\* bake, the stale page directories (website.rs:347-358).
BakeDeleteStale ==
    /\ st = "ok"
    /\ bk.pc = "pages"
    /\ bk.todo = <<>>
    /\ ret' = Call("get_slugs_to_delete", "-", get_slugs_to_delete(curr, next))
    /\ bk' = [bk EXCEPT !.pc = "index",
                        !.calls = @ \o <<Op("get_slugs_to_delete", "-"),
                                          Op("remove_dir_all",
                                             get_slugs_to_delete(curr, next))>>]
    /\ UNCHANGED <<output, par, file, st, curr, next, disk, pages, reg, prev>>

\* bake, the home page (website.rs:360-378).
BakeIndex ==
    /\ st = "ok"
    /\ bk.pc = "index"
    /\ \E io \in RenderIo :
          LET sorted == sort_pages(bk.bundle)
              nxt == set_index_checksum(next, from_data(pages_json(sorted)))
              rebuild == should_rebuild_index(curr, nxt)
              called == <<Op("set_index_checksum", "-"),
                          Op("should_rebuild_index", "-")>>
          IN  /\ next' = nxt
              /\ ret' = [op |-> "bake_index", arg |-> sorted,
                         should_rebuild_index |-> rebuild,
                         result |-> IF rebuild /\ io = "io_error" THEN "Err" ELSE "Ok"]
              /\ bk' = IF rebuild /\ io = "io_error"
                       THEN [BakeReturn(FALSE) EXCEPT !.calls = @ \o called]
                       ELSE [bk EXCEPT !.pc = "static", !.bundle = sorted,
                                       !.calls = @ \o called]
    /\ UNCHANGED <<output, par, file, st, curr, disk, pages, reg, prev>>

\* bake, the 404 page of a full rebuild and copy_static_files
\* (website.rs:380-386, 426-461): the walk, then the stale list of the store
\* and its deletion from the output directory.
BakeStatic ==
    /\ st = "ok"
    /\ bk.pc = "static"
    /\ \E io \in RenderIo, cp \in CopyOutcomes :
          LET w == copy_static_dir_recursive(StaticOrder, curr, next, disk, output, cp)
              walked == SelectSeq(StaticOrder, LAMBDA k : k \in DOMAIN w.next.static_map)
          IN  IF bk.full /\ io = "io_error"
              THEN /\ next' = next
                   /\ output' = output
                   /\ ret' = Call("bake_404", "-", "Err")
                   /\ bk' = BakeReturn(FALSE)
              ELSE IF ~IsOk(w.res)
              THEN /\ next' = w.next
                   /\ output' = w.out
                   /\ ret' = Call("copy_static_files", "-", "Err")
                   /\ bk' = BakeReturn(FALSE)
              ELSE \E iter \in Orderings(stale_static_keys(curr, w.next)) :
                      LET stale_files ==
                              get_stale_static_files_in_order_of_deletion(curr, iter)
                          d == delete_stale_static_files(stale_files, DOMAIN w.out, <<>>)
                      IN  /\ next' = w.next
                          /\ output' = [q \in d.out |-> w.out[q]]
                          /\ ret' = [op |-> "copy_static_files", arg |-> "-",
                                     val |-> "Ok", stale_files |-> stale_files,
                                     removed |-> d.removed]
                          /\ bk' = [bk EXCEPT !.pc = "write", !.calls = @ \o
                                      copy_static_files_calls(walked, disk)]
    /\ UNCHANGED <<par, file, st, curr, disk, pages, reg, prev>>

\* bake, the state file (website.rs:388-398).
BakeWrite ==
    /\ st = "ok"
    /\ bk.pc = "write"
    /\ \E o \in FsWriteOutcomes :
          LET w == write_state_file_and_commit(curr, next, file, o)
              pre == [curr |-> curr, next |-> next, file |-> file,
                      same |-> WebsiteState_eq(curr, next)]
          IN  /\ file' = w.file
              /\ curr' = w.curr
              /\ next' = w.next
              /\ ret' = [op |-> "write_state_file_and_commit", arg |-> pre,
                         val |-> w.res.tag, opened |-> w.opened]
              /\ bk' = [BakeReturn(IsOk(w.res)) EXCEPT !.calls =
                           Append(@, Op("write_state_file_and_commit", "-"))]
    /\ UNCHANGED <<output, par, st, disk, pages, reg, prev>>

\* A store that saves its next generation when it is dropped.
drop_saving(nxt, f) ==
    LET data == WebsiteState_serialize(nxt)
    IN  IF IsOk(data) THEN FileText(data.val) ELSE f

\* The StateManager is dropped, at the end of the process or when it is
\* killed: the struct has no Drop, the state file stays as it is.
drop(nxt, f) == f

\* The process ends after bake returned or Website::init failed.
ProcessExit ==
    /\ st = "failed" \/ (st = "ok" /\ bk.pc = "done")
    /\ file' = drop(next, file)
    /\ st' = "none"
    /\ curr' = WebsiteState_default
    /\ next' = WebsiteState_default
    /\ ret' = Call("exit", "-", "-")
    /\ bk' = [bk EXCEPT !.pc = "exited", !.bundle = <<>>, !.full = FALSE,
                        !.same = FALSE, !.failed = {}, !.calls = <<>>]
    /\ UNCHANGED <<output, par, disk, pages, reg, prev>>

\* The process is killed while bake runs, at any point before
\* write_state_file_and_commit.
Abort ==
    /\ st = "ok"
    /\ bk.pc \in {"bulk", "pages", "index", "static", "write"}
    /\ file' = drop(next, file)
    /\ st' = "none"
    /\ curr' = WebsiteState_default
    /\ next' = WebsiteState_default
    /\ ret' = Call("abort", bk.pc, next)
    /\ bk' = [BakeReturn(FALSE) EXCEPT !.pc = "exited", !.bundle = <<>>,
                                       !.full = FALSE, !.same = FALSE,
                                       !.failed = {}, !.calls = <<>>]
    /\ UNCHANGED <<output, par, disk, pages, reg, prev>>

\* Between two runs a markdown file is removed from the content directory.
RemoveContentFile ==
    /\ st = "none"
    /\ bk.pc = "exited"
    /\ \E f \in DOMAIN pages :
          pages' = [g \in DOMAIN pages \ {f} |-> pages[g]]
    /\ ret' = Call("none", "-", "-")
    /\ UNCHANGED <<output, par, file, st, curr, next, disk, reg, prev, bk>>

\* Between two runs a directory of the static tree is removed with what it
\* holds.
RemoveStaticDir ==
    /\ st = "none"
    /\ bk.pc = "exited"
    /\ \E key \in {k \in StaticKeys : disk[k].kind = "dir"} :
          disk' = [p \in DOMAIN disk |->
                      IF p = key \/ StaticParent(p) = key THEN Missing ELSE disk[p]]
    /\ ret' = Call("none", "-", "-")
    /\ UNCHANGED <<output, par, file, st, curr, next, pages, reg, prev, bk>>

\* A source tree with one template and a static directory holding one file.
BakeDisk ==
    [p \in Paths |->
        CASE p = "t1" -> DiskFile(2, "A")
          [] p = "a" -> DiskDir
          [] p = "a/b.txt" -> DiskFile(1, "B")
          [] OTHER -> Missing]

\* The same tree, the static file being one the process cannot open.
BakeDiskDenied == [BakeDisk EXCEPT !["a/b.txt"] = DiskUnreadable("B")]

BakeDisks == {BakeDisk, InitDisk, BakeDiskDenied}

InitBake ==
    /\ file \in InitFiles
    /\ st = "none"
    /\ curr = WebsiteState_default
    /\ next = WebsiteState_default
    /\ disk \in BakeDisks
    /\ pages \in ContentDirs
    /\ ret = Call("none", "-", "-")
    /\ reg = NoReg
    /\ prev = NoPrev
    /\ bk = BakeExited
    /\ par = ParIdle
    /\ output = EmptyMap

NextBake ==
    \/ WebsiteInit
    \/ BakeBulk
    \/ BakePage
    \/ BakeDeleteStale
    \/ BakeIndex
    \/ BakeStatic
    \/ BakeWrite
    \/ ProcessExit
    \/ Abort
    \/ RemoveContentFile
    \/ RemoveStaticDir

SpecBake == InitBake /\ [][NextBake]_vars

(***************************************************************************)
(* What a run has to delete: the keys of curr that next lacks              *)
(***************************************************************************)

GetSlugsToDelete ==
    /\ Alive
    /\ \E vec \in get_slugs_to_delete_vecs(curr, next) :
          ret' = Call("get_slugs_to_delete", "-", vec)
    /\ UNCHANGED <<output, par, file, st, curr, next, disk, pages, reg, prev, bk>>

GetStaleStaticFiles ==
    /\ Alive
    /\ \E iter \in Orderings(stale_static_keys(curr, next)) :
          ret' = Call("get_stale_static_files_in_order_of_deletion", "-",
                      get_stale_static_files_in_order_of_deletion(curr, iter))
    /\ UNCHANGED <<output, par, file, st, curr, next, disk, pages, reg, prev, bk>>

\* copy_static_files after the walk: the stale list is taken from the store
\* and deleted from the output tree.
DeleteStaleStaticFiles ==
    /\ Alive
    /\ \E iter \in Orderings(stale_static_keys(curr, next)), out \in OutputTrees :
          LET stale_files == get_stale_static_files_in_order_of_deletion(curr, iter)
              d == delete_stale_static_files(stale_files, out, <<>>)
          IN  ret' = [op |-> "delete_stale_static_files",
                      arg |-> [stale_files |-> stale_files, out |-> out],
                      val |-> d.out, removed |-> d.removed]
    /\ UNCHANGED <<output, par, file, st, curr, next, disk, pages, reg, prev, bk>>

\* Content maps of a generation.
StaleContentMaps == UNION {[S -> {from_data("A")}] : S \in SUBSET Slugs}

\* The state a static key holds: directories a and a/c, files in them.
StaticTreeState(key) ==
    IF key \in {"a", "a/c"} THEN Dir ELSE File(1, SizeOf("A"), from_data("A"))

\* Static maps of a generation.
StaleStaticMaps == {[k \in S |-> StaticTreeState(k)] : S \in SUBSET StaticTree}

\* The generations curr and next of a store in the middle of a run.
StaleGenerationPairs ==
    {[curr |-> WebsiteState(c1, None, EmptyMap, EmptyMap),
      next |-> WebsiteState(c2, None, EmptyMap, EmptyMap)] :
        c1 \in StaleContentMaps, c2 \in StaleContentMaps}
    \cup
    {[curr |-> WebsiteState(EmptyMap, None, EmptyMap, s1),
      next |-> WebsiteState(EmptyMap, None, EmptyMap, s2)] :
        s1 \in StaleStaticMaps, s2 \in StaleStaticMaps}

InitStale ==
    /\ file = FileAbsent
    /\ st = "ok"
    /\ \E g \in StaleGenerationPairs : curr = g.curr /\ next = g.next
    /\ disk = InitDisk
    /\ pages = EmptyMap
    /\ ret = Call("none", "-", "-")
    /\ reg = NoReg
    /\ prev = NoPrev
    /\ bk = BakeIdle
    /\ par = ParIdle
    /\ output = EmptyMap

NextStale ==
    \/ GetSlugsToDelete
    \/ GetStaleStaticFiles
    \/ DeleteStaleStaticFiles

SpecStale == InitStale /\ [][NextStale]_vars

(***************************************************************************)
(* File states: the tracked state of a file against the file on disk       *)
(***************************************************************************)

\* Whether fast_has_changed reaches Checksum::from_file: the entry is a
\* regular file, the tracked state is a File, and neither early return is
\* taken.
fast_has_changed_hashes(self, e) ==
    /\ e.kind = "file"
    /\ self.tag = "File"
    /\ ~(self.mtime = e.mtime /\ self.size = SizeOf(e.data))
    /\ self.size = SizeOf(e.data)

\* StateManager::set_bulk: next's bulk map is rebuilt from the paths whose
\* state can be read.
set_bulk(nxt, paths, dsk) ==
    [nxt EXCEPT !.bulk_map =
        [p \in {q \in Range(paths) : IsOk(FileState_from_path(dsk[q]))} |->
            FileState_from_path(dsk[p]).val]]

\* The states FileState::from_path records: a directory, or a file with its
\* mtime, size and checksum.
TrackedStates ==
    {Dir} \cup {File(m, SizeOf(d), from_data(d)) : m \in Mtimes, d \in Datas}

\* Two templates of the source tree.
TemplatePaths == {"t1", "t2"}

\* What a template is on disk, and what curr's bulk map holds for it.
TemplateEntries == {Missing, DiskFile(2, "A"), DiskFile(2, "B")}

TemplateStates == {File(2, SizeOf("A"), from_data("A")), File(1, SizeOf("B"), from_data("B"))}

TemplateMaps == UNION {[S -> TemplateStates] : S \in SUBSET TemplatePaths}

\* The lists of paths the glob can hand to the store.
TemplateLists == {<<>>, <<"t1">>, <<"t2">>, <<"t1", "t2">>, <<"t2", "t1">>}

\* A source tree: the entries of the two templates and of the static entry a.
FilesDisk(e1, e2, ea) ==
    [p \in TemplatePaths \cup StaticTree |->
        CASE p = "t1" -> e1 [] p = "t2" -> e2 [] p = "a" -> ea [] OTHER -> Missing]

\* The static maps of curr: a is not tracked, or tracked in some state.
TrackedStaticMaps == {EmptyMap} \cup {[k \in {"a"} |-> t] : t \in TrackedStates}

\* The static maps of next before a is visited: another key is registered.
OtherStaticMaps ==
    {[k \in {"a/b.txt"} |-> t] :
        t \in {Dir, File(1, SizeOf("A"), from_data("A")), File(2, SizeOf("B"), from_data("B"))}}

\* curr, next and the source tree of a store in the middle of a run: the
\* templates vary, or the static entry varies.
FilesInputs ==
    {[curr |-> WebsiteState(EmptyMap, None, b, EmptyMap),
      next |-> WebsiteState_default,
      disk |-> FilesDisk(e1, e2, Missing)] :
        b \in TemplateMaps, e1 \in TemplateEntries, e2 \in TemplateEntries}
    \cup
    {[curr |-> WebsiteState(EmptyMap, None, EmptyMap, sm),
      next |-> WebsiteState(EmptyMap, None, EmptyMap, o),
      disk |-> FilesDisk(Missing, Missing, ea)] :
        sm \in TrackedStaticMaps, o \in OtherStaticMaps, ea \in DiskEntries}

\* FileState::fast_has_changed of a tracked state against the entry at its path.
FastHasChanged ==
    /\ Alive
    /\ \E key \in DOMAIN curr.static_map \cup DOMAIN curr.bulk_map :
          LET self == IF key \in DOMAIN curr.static_map
                      THEN curr.static_map[key] ELSE curr.bulk_map[key]
          IN  ret' = [op |-> "fast_has_changed",
                      arg |-> [self |-> self, entry |-> disk[key]],
                      val |-> fast_has_changed(self, disk[key]),
                      hashed |-> fast_has_changed_hashes(self, disk[key])]
    /\ UNCHANGED <<output, par, file, st, curr, next, disk, pages, reg, prev, bk>>

\* impl PartialEq for FileState, on a state of curr and a state of next.
FileStateEq ==
    /\ Alive
    /\ \E a \in Range(curr.static_map) \cup Range(curr.bulk_map),
          b \in Range(next.static_map) \cup Range(next.bulk_map) :
          ret' = Call("eq", <<a, b>>, FileState_eq(a, b))
    /\ UNCHANGED <<output, par, file, st, curr, next, disk, pages, reg, prev, bk>>

\* StateManager::bulk_has_changed
BulkHasChanged ==
    /\ Alive
    /\ ret' = Call("bulk_has_changed", "-", bulk_has_changed(curr, next))
    /\ UNCHANGED <<output, par, file, st, curr, next, disk, pages, reg, prev, bk>>

\* StateManager::set_bulk
SetBulk ==
    /\ Alive
    /\ \E paths \in {l \in TemplateLists \cup BulkPathLists :
                        \A i \in DOMAIN l : l[i] \in DOMAIN disk} :
          /\ next' = set_bulk(next, paths, disk)
          /\ ret' = Call("set_bulk", paths, "Ok")
    /\ UNCHANGED <<output, par, file, st, curr, disk, pages, reg, prev, bk>>

\* StateManager::fast_set_next_bulk_and_check_if_changed on the templates.
FastSetNextBulkTemplates ==
    /\ Alive
    /\ \E paths \in TemplateLists :
          LET r == fast_get_new_file_state_map_and_check_if_changed(
                       paths, curr.bulk_map, disk)
          IN  /\ next' = [next EXCEPT !.bulk_map = r.map]
              /\ ret' = Call("fast_set_next_bulk_and_check_if_changed", paths,
                             r.has_changed)
    /\ UNCHANGED <<output, par, file, st, curr, disk, pages, reg, prev, bk>>

\* StateManager::fast_set_next_static_file_state_and_check_if_changed for
\* the static entry a.
FastSetNextStatic ==
    /\ Alive
    /\ LET r == fast_set_next_static_file_state_and_check_if_changed(
                    curr, next, disk["a"], "a")
       IN  /\ next' = IF IsOk(r) THEN r.val.next ELSE next
           /\ ret' = [op |-> "fast_set_next_static_file_state_and_check_if_changed",
                      arg |-> [key |-> "a", next |-> next],
                      val |-> IF IsOk(r) THEN Ok(r.val.has_changed) ELSE r]
    /\ UNCHANGED <<output, par, file, st, curr, disk, pages, reg, prev, bk>>

InitFileStates ==
    /\ file = FileAbsent
    /\ st = "ok"
    /\ \E g \in FilesInputs : curr = g.curr /\ next = g.next /\ disk = g.disk
    /\ pages = EmptyMap
    /\ ret = Call("none", "-", "-")
    /\ reg = NoReg
    /\ prev = NoPrev
    /\ bk = BakeIdle
    /\ par = ParIdle
    /\ output = EmptyMap

NextFileStates ==
    \/ FastHasChanged
    \/ FileStateEq
    \/ BulkHasChanged
    \/ SetBulk
    \/ FastSetNextBulkTemplates
    \/ FastSetNextStatic

SpecFileStates == InitFileStates /\ [][NextFileStates]_vars

\* The operations of the store in any order, within processes that load the
\* state file and end.
Next ==
    \/ Load
    \/ Exit
    \/ SetChecksum
    \/ UnsetChecksum
    \/ ShouldRebuild
    \/ SetIndexChecksum
    \/ ShouldRebuildIndex
    \/ FastSetNextBulk
    \/ SetBulk
    \/ FastSetNextStatic
    \/ WriteStateFileAndCommit

Spec == Init /\ [][Next]_vars

(***************************************************************************)
(* Checksum::from_globs_par (checksum.rs): one checksum for the files      *)
(* matched by a list of patterns, hashed by parallel workers               *)
(***************************************************************************)

\* The files the patterns are matched against.
GlobFiles == {"a/1", "a/2", "b/1"}

\* Ord for PathBuf, among the files.
PathRank(path) ==
    CASE path = "a/1" -> 1
      [] path = "a/2" -> 2
      [] OTHER -> 3

\* The patterns: the files of the directories a and b, and a pattern that
\* glob() rejects.
GlobPatterns == {"[", "a/*", "b/*"}

\* Ord for str, among the patterns (byte order).
PatternRank(pattern) ==
    CASE pattern = "[" -> 1
      [] pattern = "a/*" -> 2
      [] OTHER -> 3

\* The paths a pattern matches.
pattern_matches(pattern, path) ==
    \/ pattern = "a/*" /\ path \in {"a/1", "a/2"}
    \/ pattern = "b/*" /\ path \in {"b/1"}

\* fs::read
fs_read(e) ==
    IF e.kind = "file" /\ "denied" \notin DOMAIN e THEN Ok(e.data) ELSE Err("io")

\* Sha256::digest / Sha256::finalize: the raw hash, distinct for distinct data.
Sha256_digest(data) == "sha256(" \o data \o ")"

\* Checksum::from_sha256: the base64 text of a hash.
from_sha256(hash) == [buf |-> "b64" \o hash]

\* glob(pattern): an error for a malformed pattern, else the existing paths
\* that match, in the order enum in which the file system lists them.
glob(pattern, dsk, enum) ==
    IF pattern = "[" THEN Err("pattern")
    ELSE Ok(SelectSeq(enum, LAMBDA path : /\ pattern_matches(pattern, path)
                                          /\ dsk[path].kind # "missing"))

\* sorted_patterns left in the order of the caller.
sort_patterns_unsorted(patterns) == patterns

\* The place of a pattern in a sorted list.
RECURSIVE insert_pattern(_, _)
insert_pattern(sorted, pattern) ==
    IF sorted = <<>> THEN <<pattern>>
    ELSE IF PatternRank(Head(sorted)) <= PatternRank(pattern)
         THEN <<Head(sorted)>> \o insert_pattern(Tail(sorted), pattern)
         ELSE <<pattern>> \o sorted

\* sorted_patterns.sort()
RECURSIVE sort_patterns(_)
sort_patterns(patterns) ==
    IF patterns = <<>> THEN <<>>
    ELSE insert_pattern(sort_patterns(SubSeq(patterns, 1, Len(patterns) - 1)),
                        patterns[Len(patterns)])

\* The place of a path in a sorted list.
RECURSIVE insert_path(_, _)
insert_path(sorted, path) ==
    IF sorted = <<>> THEN <<path>>
    ELSE IF PathRank(Head(sorted)) <= PathRank(path)
         THEN <<Head(sorted)>> \o insert_path(Tail(sorted), path)
         ELSE <<path>> \o sorted

\* paths.sort()
RECURSIVE sort_paths(_)
sort_paths(paths) ==
    IF paths = <<>> THEN <<>>
    ELSE insert_path(sort_paths(SubSeq(paths, 1, Len(paths) - 1)), paths[Len(paths)])

\* The paths of one pattern: the matches that are files, sorted; none if
\* glob() fails.
pattern_paths(pattern, dsk, enum) ==
    LET g == glob(pattern, dsk, enum)
    IN  IF IsOk(g)
        THEN sort_paths(SelectSeq(g.val, LAMBDA path : dsk[path].kind = "file"))
        ELSE <<>>

\* all_paths, extended pattern by pattern.
RECURSIVE extend_all_paths(_, _, _)
extend_all_paths(sorted_patterns, dsk, enum) ==
    IF sorted_patterns = <<>> THEN <<>>
    ELSE pattern_paths(Head(sorted_patterns), dsk, enum)
            \o extend_all_paths(Tail(sorted_patterns), dsk, enum)

\* all_paths (checksum.rs:53-66)
all_paths(patterns, dsk, enum) == extend_all_paths(sort_patterns(patterns), dsk, enum)

\* A worker that hashes no contents for a file it cannot read.
hash_path_or_empty(e) ==
    LET r == fs_read(e)
    IN  IF IsOk(r) THEN Some(Sha256_digest(r.val)) ELSE Some(Sha256_digest(""))

\* The closure a worker runs for one path: the hash of the contents, or None
\* if the file cannot be read.
hash_path(e) ==
    LET r == fs_read(e)
    IN  IF IsOk(r) THEN Some(Sha256_digest(r.val)) ELSE None

\* The hashes of a list of results, None left out.
RECURSIVE some_values(_)
some_values(results) ==
    IF results = <<>> THEN <<>>
    ELSE IF Head(results) = None THEN some_values(Tail(results))
    ELSE <<Head(results).val>> \o some_values(Tail(results))

\* A collect that takes the results in the order the workers finished.
collect_as_completed(results, order) ==
    some_values([k \in DOMAIN order |-> results[order[k]]])

\* collect::<Vec<_>>() of the parallel iterator: the hashes in the order of
\* the paths, whatever the order in which the workers finished.
collect(results, order) == some_values(results)

\* final_hasher.update(hash) for each hash, then finalize.
RECURSIVE hasher_update(_, _)
hasher_update(data, hashes) ==
    IF hashes = <<>> THEN data
    ELSE hasher_update(data \o Head(hashes), Tail(hashes))

final_hasher(hashes) == Sha256_digest(hasher_update("", hashes))

\* Checksum::from_globs_par, its workers run one after the other.
from_globs_par(patterns, dsk, enum) ==
    LET paths == all_paths(patterns, dsk, enum)
        results == [i \in DOMAIN paths |-> hash_path(dsk[paths[i]])]
    IN  from_sha256(final_hasher(collect(results, [i \in DOMAIN paths |-> i])))

\* The pattern lists of the callers.
PatternLists ==
    {<<"a/*">>, <<"b/*">>, <<"a/*", "b/*">>, <<"b/*", "a/*">>, <<"a/*", "a/*">>,
     <<"b/*", "[", "a/*">>}

\* A worker has not finished yet.
Pending == [tag |-> "Pending"]

\* from_globs_par is called: the patterns are sorted and matched, one worker
\* per path is started.
FromGlobsPar ==
    /\ par.pc = "idle"
    /\ \E patterns \in PatternLists, enum \in Orderings(GlobFiles) :
          LET paths == all_paths(patterns, disk, enum)
          IN  /\ par' = [pc |-> "hashing", patterns |-> patterns, paths |-> paths,
                         results |-> [i \in DOMAIN paths |-> Pending],
                         order |-> <<>>]
              /\ ret' = Call("all_paths", patterns, paths)
    /\ UNCHANGED <<output, file, st, curr, next, disk, pages, reg, prev, bk>>

\* A worker finishes its path.
WorkerHash ==
    /\ par.pc = "hashing"
    /\ \E i \in DOMAIN par.paths :
          /\ par.results[i] = Pending
          /\ par' = [par EXCEPT !.results[i] = hash_path(disk[par.paths[i]]),
                                !.order = Append(@, i)]
    /\ UNCHANGED <<output, file, st, curr, next, disk, pages, ret, reg, prev, bk>>

\* All workers finished: the caller collects the hashes, folds them into the
\* final hasher and returns the checksum.
FromGlobsParReturn ==
    /\ par.pc = "hashing"
    /\ \A i \in DOMAIN par.paths : par.results[i] # Pending
    /\ ret' = [op |-> "from_globs_par", arg |-> par.patterns,
               val |-> from_sha256(final_hasher(collect(par.results, par.order))),
               paths |-> par.paths, order |-> par.order]
    /\ par' = ParIdle
    /\ UNCHANGED <<output, file, st, curr, next, disk, pages, reg, prev, bk>>

\* The checksums at hand: of data, the one from_globs_par returned and the
\* one read back from a string.
ChecksumsAtHand ==
    Checksums
        \cup (IF ret.op = "from_globs_par" THEN {ret.val} ELSE {})
        \cup (IF ret.op = "Checksum_deserialize" /\ IsOk(ret.val) THEN {ret.val.val} ELSE {})

\* The JSON values handed to the deserializer: strings of 44 bytes (base64 or
\* not), shorter and longer ones, values that are no strings, and the string
\* that was just serialized.
ChecksumValues ==
    {GoodSum, ShortSum, LongSum, JStr(0, ""), JStr(BASE64_SHA256_LEN, "not base64"),
     JNull, JNum}
        \cup (IF ret.op = "Checksum_serialize" THEN {ret.val} ELSE {})

\* impl Serialize for Checksum
ChecksumSerialize ==
    /\ par.pc = "idle"
    /\ \E c \in ChecksumsAtHand :
          ret' = Call("Checksum_serialize", c, Checksum_serialize(c))
    /\ UNCHANGED <<output, file, st, curr, next, disk, pages, reg, prev, bk, par>>

\* impl Deserialize for Checksum
ChecksumDeserialize ==
    /\ par.pc = "idle"
    /\ \E v \in ChecksumValues :
          ret' = Call("Checksum_deserialize", v, Checksum_deserialize(v))
    /\ UNCHANGED <<output, file, st, curr, next, disk, pages, reg, prev, bk, par>>

\* The file systems: a/1 readable, unreadable or missing, a/2 a file or a
\* directory, b/1 with the contents of a/1 or of a/2.
GlobDisks ==
    {[path \in GlobFiles |->
        CASE path = "a/1" -> e1 [] path = "a/2" -> e2 [] OTHER -> e3] :
        e1 \in {DiskFile(1, "A"), DiskUnreadable("A"), Missing},
        e2 \in {DiskFile(1, "B"), DiskDir},
        e3 \in {DiskFile(1, "A"), DiskFile(1, "B")}}

InitChecksum ==
    /\ file = FileAbsent
    /\ st = "none"
    /\ curr = WebsiteState_default
    /\ next = WebsiteState_default
    /\ disk \in GlobDisks
    /\ pages = EmptyMap
    /\ ret = Call("none", "-", "-")
    /\ reg = NoReg
    /\ prev = NoPrev
    /\ bk = BakeIdle
    /\ par = ParIdle
    /\ output = EmptyMap

NextChecksum ==
    \/ FromGlobsPar
    \/ WorkerHash
    \/ FromGlobsParReturn
    \/ ChecksumSerialize
    \/ ChecksumDeserialize

SpecChecksum == InitChecksum /\ [][NextChecksum]_vars

(***************************************************************************)
(* Properties of the store                                                 *)
(***************************************************************************)

\* The bulk maps of curr and next differ: a key of one is missing from the
\* other, or a key holds states that are not equal.
BulkMapsDiffer ==
    \/ DOMAIN curr.bulk_map # DOMAIN next.bulk_map
    \/ \E k \in DOMAIN curr.bulk_map : ~FileState_eq(curr.bulk_map[k], next.bulk_map[k])

\* C1: should_rebuild(slug), called after set_checksum(slug, h) of the same
\* run, returns TRUE exactly when the bulk maps of curr and next differ, or
\* slug has no entry in curr's content map, or curr's checksum of slug is not h.
C1_ShouldRebuildAfterSet ==
    (ret.op = "should_rebuild" /\ reg[ret.arg].tag = "Some") =>
        ret.val = ( \/ BulkMapsDiffer
                    \/ ret.arg \notin DOMAIN curr.content_map
                    \/ curr.content_map[ret.arg] # reg[ret.arg].val )

\* should_rebuild answered FALSE for a registered slug, and TRUE is also possible
\* for it on the checksum alone.
C1_Witness ==
    /\ ret.op = "should_rebuild"
    /\ reg[ret.arg].tag = "Some"
    /\ ret.val = FALSE
    /\ ret.arg \in DOMAIN curr.content_map

\* C2 (as claimed): when next equals curr (PartialEq of WebsiteState),
\* write_state_file_and_commit does not open or write the state file.
C2_NoWriteWhenEqual ==
    (ret.op = "write_state_file_and_commit" /\ ret.arg.same) =>
        (~ret.opened /\ file = ret.arg.file)

\* C3: when serializing next or writing the file fails,
\* write_state_file_and_commit returns the error and leaves curr and next as
\* they were before the call.
C3_FailedWriteKeepsGenerations ==
    (ret.op = "write_state_file_and_commit" /\ ret.val = "Err") =>
        (curr = ret.arg.curr /\ next = ret.arg.next)

\* fs::write failed after truncating the file while next held something to commit.
C3_Witness ==
    /\ ret.op = "write_state_file_and_commit"
    /\ ret.val = "Err"
    /\ ret.opened
    /\ ~WebsiteState_eq(curr, next)

\* C4 (as claimed): the run that follows a run whose write failed loads the
\* state file successfully and obtains the generation the failed run held as curr.
C4_OldGenerationAuthoritative ==
    (ret.op = "from_file" /\ ret.prev.write_failed) =>
        (ret.val = "Ok" /\ curr = ret.prev.gen)

\* C5: curr is replaced only by a successful write: after Ok, curr is the next
\* of before the call, next is the default generation and the file holds the
\* serialized next; after Err, curr is the curr of before the call.
C5_CommitOnlyAfterWrite ==
    ret.op = "write_state_file_and_commit" =>
        IF ret.val = "Ok"
        THEN /\ curr = ret.arg.next
             /\ next = WebsiteState_default
             /\ file = FileText(WebsiteState_serialize(ret.arg.next).val)
        ELSE curr = ret.arg.curr

\* A successful write committed a next that was neither empty nor equal to curr.
C5_Witness ==
    /\ ret.op = "write_state_file_and_commit"
    /\ ret.val = "Ok"
    /\ ret.arg.next # WebsiteState_default
    /\ ret.arg.curr # ret.arg.next
    /\ ret.arg.curr # WebsiteState_default

\* The state file that holds the serialized all-empty generation.
AllEmptyFile == FileText(WebsiteState_serialize(WebsiteState_default).val)

\* C7: loading a missing state file succeeds with curr and next the default
\* (empty) generation, the same store as loading a file that holds the
\* all-empty generation.
C7_MissingFileIsEmptyGeneration ==
    (ret.op = "from_file" /\ ret.arg \in {FileAbsent, AllEmptyFile}) =>
        /\ st = "ok"
        /\ ret.val = "Ok"
        /\ curr = WebsiteState_default
        /\ next = WebsiteState_default
        /\ curr.content_map = EmptyMap /\ curr.index_checksum = None
        /\ curr.bulk_map = EmptyMap /\ curr.static_map = EmptyMap

\* A missing state file was loaded.
C7_Witness == ret.op = "from_file" /\ ret.arg = FileAbsent /\ st = "ok"

(***************************************************************************)
(* Properties of loading                                                   *)
(***************************************************************************)

\* C6 (as claimed): loading a state file that is no parseable document
\* succeeds with the empty generation as curr.
C6_CorruptFileLoadsEmpty ==
    (ret.op = "from_file" /\ ret.arg = FileGarbage) =>
        (st = "ok" /\ ret.val = "Ok" /\ curr = WebsiteState_default)

\* C6 (amended): loading a state file that is no parseable document fails:
\* from_file returns the error and no store is built.
C6_CorruptFileFailsLoad ==
    (ret.op = "from_file" /\ ret.arg = FileGarbage) =>
        (st = "failed" /\ ret.val = "Err")

\* An unparseable state file was loaded.
C6_Witness == ret.op = "from_file" /\ ret.arg = FileGarbage

\* A string of the encoded length of a checksum.
IsSum(v) == v.tag = "Str" /\ v.len = BASE64_SHA256_LEN

\* The value under "index" is null or a checksum.
IndexWellFormed(doc) ==
    "index" \in DOMAIN doc.fields =>
        (doc.fields["index"].tag = "Null" \/ IsSum(doc.fields["index"]))

\* The value under the key is a map whose values all are of the right shape.
MapWellFormed(doc, f) ==
    /\ doc.fields[f].tag = "Map"
    /\ \A k \in DOMAIN doc.fields[f].m :
          LET x == doc.fields[f].m[k]
          IN  IF f = "content" THEN IsSum(x)
              ELSE x.tag = "Null" \/ (x.tag = "Arr" /\ IsSum(x.sum))

\* The generation field a well-formed value of the document stands for.
StoredValue(doc, f) ==
    CASE f \notin DOMAIN doc.fields -> IF f = "index" THEN None ELSE EmptyMap
      [] f = "index" ->
            IF doc.fields[f].tag = "Null" THEN None
            ELSE Some([buf |-> doc.fields[f].text])
      [] f = "content" ->
            [k \in DOMAIN doc.fields[f].m |-> [buf |-> doc.fields[f].m[k].text]]
      [] OTHER ->
            [k \in DOMAIN doc.fields[f].m |->
                LET x == doc.fields[f].m[k]
                IN  IF x.tag = "Null" THEN Dir
                    ELSE File(x.mtime, x.size, [buf |-> x.sum.text])]

\* The field of the loaded generation that a key of the document fills.
LoadedField(f) ==
    CASE f = "content" -> curr.content_map
      [] f = "index" -> curr.index_checksum
      [] f = "bulk" -> curr.bulk_map
      [] OTHER -> curr.static_map

MapKeys == {"content", "bulk", "static"}

\* C8: for a well-formed document (its index well-formed), load succeeds;
\* each malformed map among content, bulk and static is loaded as the empty
\* map, and every other field holds the value stored in the file.
C8_MalformedMapDefaultsAlone ==
    (ret.op = "from_file" /\ ret.arg.kind = "json" /\ IndexWellFormed(ret.arg.doc)) =>
        /\ st = "ok"
        /\ curr.index_checksum = StoredValue(ret.arg.doc, "index")
        /\ \A f \in MapKeys :
              IF f \in DOMAIN ret.arg.doc.fields /\ ~MapWellFormed(ret.arg.doc, f)
              THEN LoadedField(f) = EmptyMap
              ELSE LoadedField(f) = StoredValue(ret.arg.doc, f)

\* A document whose bulk map alone is malformed (one unreadable entry) was
\* loaded, and the content map, the index and the static map came through.
C8_Witness ==
    /\ ret.op = "from_file"
    /\ ret.arg.kind = "json"
    /\ DOMAIN ret.arg.doc.fields = DocKeys
    /\ ret.arg.doc.fields["bulk"] = JMap([p \in {"t1"} |-> JArr(1, 1, ShortSum)])
    /\ curr.bulk_map = EmptyMap
    /\ DOMAIN curr.content_map = Slugs
    /\ curr.index_checksum # None
    /\ DOMAIN curr.static_map = StaticKeys

\* The only defects of the document are checksum strings of a wrong length.
OnlyChecksumLengthsWrong(doc) ==
    /\ "content" \in DOMAIN doc.fields =>
          /\ doc.fields["content"].tag = "Map"
          /\ \A k \in DOMAIN doc.fields["content"].m : doc.fields["content"].m[k].tag = "Str"
    /\ "index" \in DOMAIN doc.fields => doc.fields["index"].tag \in {"Null", "Str"}
    /\ \A f \in {"bulk", "static"} \cap DOMAIN doc.fields :
          /\ doc.fields[f].tag = "Map"
          /\ \A k \in DOMAIN doc.fields[f].m :
                \/ doc.fields[f].m[k].tag = "Null"
                \/ doc.fields[f].m[k].tag = "Arr" /\ doc.fields[f].m[k].sum.tag = "Str"

\* The key of the document holds no checksum of a wrong length.
FieldChecksumsGood(doc, f) ==
    IF f = "index" THEN IndexWellFormed(doc) ELSE MapWellFormed(doc, f)

\* C9 (as claimed): a document whose only defects are checksums of a wrong
\* encoded length loads successfully, and every field that holds no such
\* checksum keeps the value stored in the file.
C9_BadChecksumRejectedAtFieldLevel ==
    (ret.op = "from_file" /\ ret.arg.kind = "json"
        /\ OnlyChecksumLengthsWrong(ret.arg.doc)) =>
        /\ st = "ok"
        /\ \A f \in DOMAIN ret.arg.doc.fields :
              FieldChecksumsGood(ret.arg.doc, f) =>
                  LoadedField(f) = StoredValue(ret.arg.doc, f)

(***************************************************************************)
(* Properties of runs of bake                                              *)
(***************************************************************************)

\* C10: idempotence across runs. In a run that follows a run that committed
\* and reads the same pages, bulk files and static tree, should_rebuild is
\* false for every page bake registers and should_rebuild_index is false.
C10_SecondRunRebuildsNothing ==
    bk.same =>
        /\ (ret.op = "bake_page" /\ ret.registered) => ret.should_rebuild = FALSE
        /\ ret.op = "bake_index" => ret.should_rebuild_index = FALSE

\* The run follows a committed run that registered exactly p1 and p2, and p2
\* was removed from the content directory since; nothing else changed.
P2RemovedAfterCommit ==
    /\ bk.pc \in {"pages", "index"}
    /\ bk.last.committed
    /\ DOMAIN bk.last.pages = {"p1", "p2"}
    /\ pages = [g \in {"p1"} |-> bk.last.pages[g]]
    /\ disk = bk.last.disk
    /\ curr.content_map = [g \in {"p1", "p2"} |-> from_data(bk.last.pages[g].data)]

\* C11: two-run scenario. With the state file absent every page bake
\* registers reports should_rebuild = true; in the run after a committed run
\* with pages p1 and p2 from which p2 was then removed, should_rebuild(p1) is
\* false and get_slugs_to_delete returns p2 alone.
C11_TwoRunScenario ==
    /\ (file = FileAbsent /\ ret.op = "bake_page" /\ ret.registered)
            => ret.should_rebuild = TRUE
    /\ (P2RemovedAfterCommit /\ ret.op = "bake_page" /\ ret.arg = "p1")
            => (ret.registered /\ ret.should_rebuild = FALSE)
    /\ (P2RemovedAfterCommit /\ ret.op = "get_slugs_to_delete")
            => ret.val = {"p2"}

C11_Witness ==
    /\ P2RemovedAfterCommit
    /\ ret.op = "get_slugs_to_delete"
    /\ ret.val = {"p2"}
    /\ next.content_map = [g \in {"p1"} |-> curr.content_map[g]]

\* C21: partial-pipeline failure. When bake writes the state, no slug whose
\* processing failed in this run after set_checksum registered it (shortcodes,
\* the page directory, the template, post-processing, index.html) is in the
\* content map of the generation that is written.
C21_FailedPageNotRecorded ==
    (ret.op = "write_state_file_and_commit" /\ ret.val = "Ok")
        => \A s \in bk.failed :
              /\ s \notin DOMAIN ret.arg.next.content_map
              /\ s \notin DOMAIN curr.content_map

\* A collaborator failed for the page of the last iteration: its front matter
\* did not parse, or shortcodes, the template or post-processing failed.
PageCollaboratorFailed ==
    /\ ret.op = "bake_page"
    /\ ret.step \in {"front_matter", "shortcodes", "template", "postprocess"}

\* C22: failures of page-processing collaborators do not end the run. After
\* such a failure the page is skipped and bake goes on with the remaining
\* pages, so bake never returns an error because of one.
C22_CollaboratorFailureSkipsPage ==
    PageCollaboratorFailed
        => /\ ret.result = "continue"
           /\ bk.pc = "pages"
           /\ ret.arg \notin {bk.bundle[i].slug : i \in DOMAIN bk.bundle}

\* C23: a run that is aborted before write_state_file_and_commit never writes
\* the state file. The file changes in no step of a run other than the call
\* of write_state_file_and_commit: not in a step of bake before it, not when
\* bake returns an error and not when the process ends or is killed.
C23_OnlyTheWriteChangesTheFile ==
    [][file' # file =>
         /\ bk.pc = "write"
         /\ ret'.op = "write_state_file_and_commit"]_vars

\* The process was killed after pages were registered in next; the state
\* file is still the one the run loaded.
C23_Witness ==
    /\ ret.op = "abort"
    /\ ret.arg \in {"pages", "static", "write"}
    /\ DOMAIN ret.val.content_map # {}
    /\ ~WebsiteState_eq(ret.val, StateManager_from_file(file).val.curr)
    /\ bk.last.committed = FALSE

\* The places of an operation in the history of calls of the run.
CallsOf(op) == {i \in DOMAIN bk.calls : bk.calls[i][1] = op}

\* The pages of the content directory that bake registers.
DiscoveredPages ==
    {f \in DOMAIN pages : pages[f].kind \notin {"unreadable", "no_front_matter"}}

\* C30: the order of the driver's calls in a run. The bulk check comes before
\* every should_rebuild; set_checksum(slug) before should_rebuild(slug);
\* get_slugs_to_delete after the loop registered every page it discovered;
\* set_index_checksum before should_rebuild_index; the calls of the static
\* walk, one for every key it recorded, before the stale static list; and
\* write_state_file_and_commit is the last call, after every deletion.
C30_OrderOfCalls ==
    /\ \A j \in CallsOf("should_rebuild") :
          /\ \E i \in 1..(j - 1) :
                bk.calls[i][1] = "fast_set_next_bulk_and_check_if_changed"
          /\ \E i \in 1..(j - 1) : bk.calls[i] = Op("set_checksum", bk.calls[j][2])
    /\ \A j \in CallsOf("get_slugs_to_delete") :
          /\ bk.todo = <<>>
          /\ \A i \in CallsOf("set_checksum") : i < j
          /\ \A f \in DiscoveredPages :
                \E i \in 1..(j - 1) : bk.calls[i] = Op("set_checksum", f)
    /\ \A j \in CallsOf("should_rebuild_index") :
          \E i \in 1..(j - 1) : bk.calls[i][1] = "set_index_checksum"
    /\ \A j \in CallsOf("get_stale_static_files_in_order_of_deletion") :
          /\ \A i \in CallsOf("fast_set_next_static_file_state_and_check_if_changed") :
                i < j
          /\ bk.pc = "write" =>
                \A key \in DOMAIN next.static_map :
                    \E i \in 1..(j - 1) :
                        bk.calls[i] =
                            Op("fast_set_next_static_file_state_and_check_if_changed",
                               key)
    /\ \A j \in CallsOf("write_state_file_and_commit") :
          /\ j = Len(bk.calls)
          /\ bk.pc = "done"
          /\ \E i \in 1..(j - 1) : bk.calls[i][1] = "delete_stale_static_files"
          /\ \E i \in 1..(j - 1) : bk.calls[i][1] = "remove_dir_all"

\* A run over two pages, the first built, the second unset after its
\* shortcodes failed, and a static directory with a file, that ended with
\* the write of the state.
C30_Witness ==
    /\ bk.pc = "done"
    /\ Len(bk.calls) = 16
    /\ bk.calls[1] = Op("fast_set_next_bulk_and_check_if_changed", "-")
    /\ CallsOf("should_rebuild") # {}
    /\ CallsOf("unset_checksum") # {}
    /\ bk.calls[4] = Op("remove_file", "p1")
    /\ bk.calls[13] = Op("fast_set_next_static_file_state_and_check_if_changed", "a/b.txt")
    /\ bk.calls[16] = Op("write_state_file_and_commit", "-")

(***************************************************************************)
(* Properties of the lists of stale keys                                   *)
(***************************************************************************)

\* No element occurs twice in the list.
NoDuplicates(seq) == \A i, j \in DOMAIN seq : seq[i] = seq[j] => i = j

\* C12: get_slugs_to_delete returns each key of curr's content map that is
\* not a key of next's content map, once, and nothing else; and
\* get_stale_static_files_in_order_of_deletion returns each key of curr's
\* static map that is not a key of next's static map, once, and nothing else.
C12_StaleKeysAreTheDifference ==
    /\ ret.op = "get_slugs_to_delete" =>
          /\ Range(ret.val) = DOMAIN curr.content_map \ DOMAIN next.content_map
          /\ NoDuplicates(ret.val)
    /\ ret.op = "get_stale_static_files_in_order_of_deletion" =>
          /\ {t[1] : t \in Range(ret.val)} =
                 DOMAIN curr.static_map \ DOMAIN next.static_map
          /\ NoDuplicates(ret.val)

C12_Witness ==
    /\ ret.op = "get_stale_static_files_in_order_of_deletion"
    /\ Len(ret.val) = 2
    /\ DOMAIN next.static_map # {}
    /\ DOMAIN next.static_map \ DOMAIN curr.static_map # {}

\* The keys of a list of (key, is_file) tuples.
KeysOf(tuples) == [i \in DOMAIN tuples |-> tuples[i][1]]

\* key is a proper ancestor directory of other.
IsAncestor(key, other) ==
    \/ key = "a" /\ other \in {"a/b.txt", "a/c", "a/c/d.txt"}
    \/ key = "a/c" /\ other = "a/c/d.txt"

\* C13: in the list returned by get_stale_static_files_in_order_of_deletion
\* an entry with more path components stands before every entry with fewer,
\* so a stale entry stands before each of its stale ancestors; when a,
\* a/b.txt, a/c and a/c/d.txt are all stale, a/c/d.txt is first and a last.
C13_DeepestFirst ==
    ret.op = "get_stale_static_files_in_order_of_deletion" =>
        LET keys == KeysOf(ret.val)
        IN  /\ \A i, j \in DOMAIN keys :
                  components_count(keys[i]) > components_count(keys[j]) => i < j
            /\ \A i, j \in DOMAIN keys : IsAncestor(keys[j], keys[i]) => i < j
            /\ Range(keys) = StaticTree =>
                  keys[1] = "a/c/d.txt" /\ keys[Len(keys)] = "a"

\* The four entries are stale and the siblings a/c and a/b.txt came out in
\* this order.
C13_Witness ==
    /\ ret.op = "get_stale_static_files_in_order_of_deletion"
    /\ KeysOf(ret.val) = <<"a/c/d.txt", "a/c", "a/b.txt", "a">>
    /\ ret.val[2][2] = FALSE
    /\ ret.val[3][2] = TRUE

\* The keys of the stale list handed to the deletion loop.
StaleListKeys == {ret.arg.stale_files[i][1] : i \in DOMAIN ret.arg.stale_files}

\* The path lies in the directory, at any depth.
OutputInside(path, dir) ==
    OutputParent(path) = dir \/ OutputParent(OutputParent(path)) = dir

\* C24: deletion of stale static files. The loop of copy_static_files removes
\* nothing but stale keys, so page outputs and entries tracked in next stay;
\* a directory is removed only after everything the output tree held in it
\* was removed; and a stale directory that held stale entries only is gone,
\* its files being removed before it.
C24_StaticDeletionIsSafe ==
    ret.op = "delete_stale_static_files" =>
        LET before == ret.arg.out
            after == ret.val
            removed == ret.removed
        IN  /\ after \subseteq before
            /\ before \ after = Range(removed)
            /\ \A q \in before \ StaleListKeys : q \in after
            /\ \A q \in before \cap DOMAIN next.static_map : q \in after
            /\ \A i \in DOMAIN removed :
                  OutputIsDir(removed[i]) =>
                      \A q \in before :
                          OutputInside(q, removed[i]) =>
                              \E j \in 1..(i - 1) : removed[j] = q
            /\ \A d \in StaleListKeys \cap before :
                  (/\ OutputIsDir(d)
                   /\ \A q \in before : OutputInside(q, d) => q \in StaleListKeys)
                      => d \notin after

\* The stale directory a/c goes after its file; the stale directory a stays
\* because the page a keeps its index.html there.
C24_Witness ==
    /\ ret.op = "delete_stale_static_files"
    /\ ret.arg.out = {"a", "a/index.html", "a/c", "a/c/d.txt"}
    /\ StaleListKeys = {"a", "a/c", "a/c/d.txt"}
    /\ ret.removed = <<"a/c/d.txt", "a/c">>
    /\ ret.val = {"a", "a/index.html"}

(***************************************************************************)
(* Properties of file states                                               *)
(***************************************************************************)

\* fast_has_changed was applied to a tracked File and a regular file on disk.
FileAgainstFile ==
    /\ ret.op = "fast_has_changed"
    /\ ret.arg.self.tag = "File"
    /\ ret.arg.entry.kind = "file"

\* The brute-force check: the checksum of the file on disk is recomputed and
\* compared with the tracked checksum.
BruteForceChanged == ret.arg.self.checksum # from_data(ret.arg.entry.data)

\* The mtime and the size on disk equal the tracked values.
StatMatches ==
    /\ ret.arg.self.mtime = ret.arg.entry.mtime
    /\ ret.arg.self.size = SizeOf(ret.arg.entry.data)

\* C14 (as claimed): fast-path equivalence. For a tracked File and a regular
\* file on disk fast_has_changed returns what the brute-force check returns.
C14_FastPathEquivalence ==
    FileAgainstFile => ret.val = Ok(BruteForceChanged)

\* C14 (amended): for a tracked File recorded by from_path and a regular
\* file on disk, fast_has_changed returns what the brute-force check returns
\* unless both the mtime and the size on disk equal the tracked values; then
\* it returns false without computing a checksum.
C14_EquivalenceUnlessStatMatches ==
    FileAgainstFile =>
        IF StatMatches
        THEN ret.val = Ok(FALSE) /\ ~ret.hashed
        ELSE ret.val = Ok(BruteForceChanged)

\* The mtime moved, the size is the tracked one, and the checksum decided:
\* the bytes differ.
C14_Witness ==
    /\ FileAgainstFile
    /\ ~StatMatches
    /\ ret.hashed
    /\ ret.val = Ok(TRUE)
    /\ BruteForceChanged

\* C15: fast_has_changed never reports unchanged on mtime alone. When it
\* returns false for a regular file, the mtime and the size on disk both
\* equal the tracked values or the recomputed checksum equals the tracked
\* one; and it returns false for a file whose bytes are the tracked ones,
\* whether its mtime moved or not.
C15_NeverUnchangedOnMtimeAlone ==
    /\ (ret.op = "fast_has_changed" /\ ret.arg.entry.kind = "file"
            /\ ret.val = Ok(FALSE))
          => /\ ret.arg.self.tag = "File"
             /\ StatMatches \/ ~BruteForceChanged
    /\ (FileAgainstFile
            /\ ret.arg.self.size = SizeOf(ret.arg.entry.data)
            /\ ret.arg.self.checksum = from_data(ret.arg.entry.data))
          => ret.val = Ok(FALSE)

\* The bytes are the tracked ones and the mtime moved forward: unchanged,
\* on the checksum.
C15_Witness ==
    /\ FileAgainstFile
    /\ ret.arg.entry.mtime > ret.arg.self.mtime
    /\ ret.arg.self.checksum = from_data(ret.arg.entry.data)
    /\ ret.hashed
    /\ ret.val = Ok(FALSE)

\* C16: type rules of fast_has_changed. Against a directory on disk the
\* result is changed exactly when the tracked state is not Dir; a regular
\* file on disk against a tracked Dir is changed; a regular file whose size
\* is not the tracked size is changed, and no checksum is computed.
C16_TypeRules ==
    ret.op = "fast_has_changed" =>
        /\ ret.arg.entry.kind = "dir" => ret.val = Ok(ret.arg.self.tag # "Dir")
        /\ (ret.arg.entry.kind = "file" /\ ret.arg.self.tag = "Dir")
              => ret.val = Ok(TRUE)
        /\ (FileAgainstFile /\ ret.arg.self.size # SizeOf(ret.arg.entry.data))
              => ret.val = Ok(TRUE) /\ ~ret.hashed

\* A tracked Dir is still a directory: unchanged.
C16_Witness ==
    /\ ret.op = "fast_has_changed"
    /\ ret.arg.entry.kind = "dir"
    /\ ret.arg.self.tag = "Dir"
    /\ ret.val = Ok(FALSE)

\* The path is a file the store can read that is new to curr's bulk map or
\* changed relative to its entry there.
NewOrChanged(path) ==
    /\ IsOk(FileState_from_path(disk[path]))
    /\ \/ path \notin DOMAIN curr.bulk_map
       \/ fast_has_changed(curr.bulk_map[path], disk[path]) = Ok(TRUE)

\* C17: fast_set_next_bulk_and_check_if_changed(paths) returns true exactly
\* when some path of the list is new or changed relative to curr's bulk map,
\* wherever the path stands in the list.
C17_BulkChangedIffSomePathChanged ==
    ret.op = "fast_set_next_bulk_and_check_if_changed" =>
        ret.val = (\E i \in DOMAIN ret.arg : NewOrChanged(ret.arg[i]))

\* C18: fast_set_next_static_file_state_and_check_if_changed(path, key)
\* decides against curr's static map: it returns true exactly when key has
\* no entry in curr or the entry's fast_has_changed is true; on success next's
\* static map gains the entry of key (curr's entry when unchanged, the state
\* read from the path otherwise) and nothing else of next changes; on error
\* next is unchanged.
C18_StaticEntryAgainstCurr ==
    ret.op = "fast_set_next_static_file_state_and_check_if_changed" =>
        LET key == ret.arg.key
            before == ret.arg.next
            changed == \/ key \notin DOMAIN curr.static_map
                       \/ fast_has_changed(curr.static_map[key], disk[key]) = Ok(TRUE)
        IN  IF IsOk(ret.val)
            THEN /\ ret.val.val = changed
                 /\ DOMAIN next.static_map = DOMAIN before.static_map \cup {key}
                 /\ \A k \in DOMAIN before.static_map \ {key} :
                        next.static_map[k] = before.static_map[k]
                 /\ next.static_map[key] =
                        IF changed THEN FileState_from_path(disk[key]).val
                        ELSE curr.static_map[key]
                 /\ next.content_map = before.content_map
                 /\ next.index_checksum = before.index_checksum
                 /\ next.bulk_map = before.bulk_map
            ELSE next = before

\* The key was registered in next by an earlier call and is unknown to curr:
\* the call reports changed again.
C18_Witness ==
    /\ ret.op = "fast_set_next_static_file_state_and_check_if_changed"
    /\ ret.val = Ok(TRUE)
    /\ ret.arg.key \in DOMAIN ret.arg.next.static_map
    /\ ret.arg.key \notin DOMAIN curr.static_map
    /\ DOMAIN next.static_map = {"a", "a/b.txt"}

\* C19: should_rebuild_index returns true exactly when the bulk maps of curr
\* and next differ or the index checksum of curr is not that of next, an
\* absent checksum being different from every present one.
C19_IndexRebuildIffBulkOrIndexDiffers ==
    ret.op = "should_rebuild_index" =>
        ret.val = ( \/ BulkMapsDiffer
                    \/ curr.index_checksum.tag # next.index_checksum.tag
                    \/ /\ curr.index_checksum.tag = "Some"
                       /\ next.index_checksum.tag = "Some"
                       /\ curr.index_checksum.val # next.index_checksum.val )

\* The index checksums are equal and the bulk maps differ: rebuild.
C19_Witness ==
    /\ ret.op = "should_rebuild_index"
    /\ ret.val = TRUE
    /\ curr.index_checksum.tag = "Some"
    /\ curr.index_checksum = next.index_checksum
    /\ BulkMapsDiffer

\* C20: equality of file states. Two File states are equal exactly when
\* their checksums are equal, two Dir states are equal, a File and a Dir are
\* not; hence bulk_has_changed is false when the bulk maps of curr and next
\* have the same keys and, key by key, the same checksum or Dir twice,
\* whatever the mtimes.
C20_EqualityByChecksum ==
    /\ ret.op = "eq" =>
          LET a == ret.arg[1]
              b == ret.arg[2]
          IN  ret.val = CASE a.tag = "File" /\ b.tag = "File" -> a.checksum = b.checksum
                          [] a.tag = "Dir" /\ b.tag = "Dir" -> TRUE
                          [] OTHER -> FALSE
    /\ ret.op = "bulk_has_changed" =>
          ret.val = ~( /\ DOMAIN curr.bulk_map = DOMAIN next.bulk_map
                       /\ \A k \in DOMAIN curr.bulk_map :
                             /\ curr.bulk_map[k].tag = next.bulk_map[k].tag
                             /\ curr.bulk_map[k].tag = "File" =>
                                   curr.bulk_map[k].checksum = next.bulk_map[k].checksum )

\* The bulk maps differ in an mtime only and bulk_has_changed is false.
C20_Witness ==
    /\ ret.op = "bulk_has_changed"
    /\ ret.val = FALSE
    /\ \E k \in DOMAIN curr.bulk_map :
          /\ k \in DOMAIN next.bulk_map
          /\ curr.bulk_map[k].mtime # next.bulk_map[k].mtime

(***************************************************************************)
(* Properties of from_globs_par                                            *)
(***************************************************************************)

\* The lists that hold the elements of a list in another order.
Reorderings(seq) ==
    {[i \in DOMAIN seq |-> seq[f[i]]] : f \in Orderings(DOMAIN seq)}

\* C25: glob determinism. The checksum from_globs_par returned is the one it
\* computes for every permutation of the pattern list and every order in
\* which the file system lists the matches.
C25_PatternAndEnumerationOrder ==
    ret.op = "from_globs_par" =>
        \A patterns \in Reorderings(ret.arg), enum \in Orderings(GlobFiles) :
            from_globs_par(patterns, disk, enum) = ret.val

\* ["b/*", "a/*"] over the files a/1, a/2 and b/1, of which a/1 and a/2
\* differ: the result is the one of ["a/*", "b/*"].
C25_Witness ==
    /\ ret.op = "from_globs_par"
    /\ ret.arg = <<"b/*", "a/*">>
    /\ ret.paths = <<"a/1", "a/2", "b/1">>
    /\ disk["a/1"].data # disk["a/2"].data
    /\ ret.val = from_globs_par(<<"a/*", "b/*">>, disk, <<"b/1", "a/2", "a/1">>)

\* The (pattern, matched path, content) triples of a pattern list.
Triples(patterns, dsk) ==
    {<<x[1], x[2], dsk[x[2]].data>> :
        x \in {y \in Range(patterns) \X GlobFiles :
                  /\ pattern_matches(y[1], y[2])
                  /\ IsOk(fs_read(dsk[y[2]]))}}

\* C26: the checksum depends on the set of triples only. Every pattern list
\* with the triples of the list that was passed, a list that repeats a
\* pattern included, has the checksum that was returned.
C26_DependsOnTriplesOnly ==
    ret.op = "from_globs_par" =>
        \A patterns \in PatternLists :
            Triples(patterns, disk) = Triples(ret.arg, disk)
                => from_globs_par(patterns, disk, <<"a/1", "a/2", "b/1">>) = ret.val

\* C27: the fold is in the order of the paths for every schedule. Whatever
\* the order in which the workers finished, the checksum is the one of the
\* run in which they hash one after the other, and it is the hash of the
\* hashes of the readable paths in the order of all_paths.
C27_FoldInPathOrder ==
    ret.op = "from_globs_par" =>
        /\ ret.val = from_globs_par(ret.arg, disk, <<"a/1", "a/2", "b/1">>)
        /\ ret.val = from_sha256(final_hasher(some_values(
                        [i \in DOMAIN ret.paths |-> hash_path(disk[ret.paths[i]])])))

\* The workers finished in the reverse of the path order, over files whose
\* hashes differ.
C27_Witness ==
    /\ ret.op = "from_globs_par"
    /\ ret.paths = <<"a/1", "a/2", "b/1">>
    /\ ret.order = <<3, 2, 1>>
    /\ disk["a/1"] = DiskFile(1, "A")
    /\ disk["b/1"] = DiskFile(1, "B")
    /\ ret.val = from_sha256(Sha256_digest("sha256(A)sha256(B)sha256(B)"))

\* C28: a file that cannot be read is skipped. from_globs_par returns a
\* checksum, and for every matched file that cannot be read it is the
\* checksum of the same patterns over the file system without that file.
C28_UnreadableFileIsSkipped ==
    ret.op = "from_globs_par" =>
        /\ DOMAIN ret.val = {"buf"}
        /\ \A path \in GlobFiles :
              (disk[path].kind = "file" /\ ~IsOk(fs_read(disk[path])))
                  => \A enum \in Orderings(GlobFiles) :
                        from_globs_par(ret.arg, [disk EXCEPT ![path] = Missing], enum)
                            = ret.val

\* a/1 matched and not readable: its worker finished and the checksum is the
\* one of a/2 and b/1.
C28_Witness ==
    /\ ret.op = "from_globs_par"
    /\ ret.arg = <<"a/*", "b/*">>
    /\ disk["a/1"] = DiskUnreadable("A")
    /\ ret.paths = <<"a/1", "a/2", "b/1">>
    /\ Len(ret.order) = 3
    /\ ret.val = from_sha256(final_hasher(
                    <<Sha256_digest("B"), Sha256_digest(disk["b/1"].data)>>))

(***************************************************************************)
(* Properties of the checksum encoding                                     *)
(***************************************************************************)

\* C29: the encoding round-trips and rejects wrong lengths. The serialized
\* form of a Checksum deserializes to that Checksum; a string whose length is
\* not BASE64_SHA256_LEN bytes deserializes to an invalid-length error.
C29_ChecksumRoundTrip ==
    /\ ret.op = "Checksum_serialize"
            => Checksum_deserialize(ret.val) = Ok(ret.arg)
    /\ (ret.op = "Checksum_deserialize" /\ ret.arg.tag = "Str")
            => /\ \A c \in ChecksumsAtHand :
                      ret.arg = Checksum_serialize(c) => ret.val = Ok(c)
               /\ ret.arg.len # BASE64_SHA256_LEN => ret.val = Err("invalid length")
               /\ IsOk(ret.val) => Checksum_serialize(ret.val.val) = ret.arg

\* The checksum from_globs_par returned for two files was serialized, and the
\* string was read back as that checksum.
C29_Witness ==
    /\ ret.op = "Checksum_deserialize"
    /\ ret.arg = JStr(BASE64_SHA256_LEN, "b64sha256(sha256(A)sha256(B))")
    /\ ret.val = Ok(from_sha256(final_hasher(<<Sha256_digest("A"), Sha256_digest("B")>>)))

(***************************************************************************)
(* Properties of the static files and of the output directory              *)
(***************************************************************************)

\* The entries of the static tree whose state can be read from the disk.
ReadableStaticEntries ==
    {key \in StaticKeys :
        /\ disk[key].kind \in {"file", "dir"}
        /\ StaticParent(key) = "" \/ disk[StaticParent(key)].kind = "dir"
        /\ IsOk(FileState_from_path(disk[key]))}

\* C31: copy_static_files continues on the error of one entry: it returns no
\* error, and every entry of the static tree that can be read is recorded in
\* next when it returns.
C31_StaticErrorsDoNotEndRun ==
    ret.op = "copy_static_files" =>
        /\ ret.val = "Ok"
        /\ ReadableStaticEntries \subseteq DOMAIN next.static_map

\* C34: in a run of bake, get_slugs_to_delete holds the slug of no page whose
\* markdown file is in the content directory of the run.
C34_PresentPagesAreKept ==
    ret.op = "get_slugs_to_delete" => \A slug \in ret.val : slug \notin DOMAIN pages

\* C35: when the state is written, every key of next's static map that is a
\* regular file has its copy in the output directory, with the content whose
\* checksum next records.
C35_RecordedStaticFilesAreInOutput ==
    (ret.op = "write_state_file_and_commit" /\ ret.val = "Ok") =>
        \A key \in DOMAIN ret.arg.next.static_map :
            is_file(ret.arg.next.static_map[key]) =>
                /\ key \in DOMAIN output
                /\ output[key].kind = "file"
                /\ from_data(output[key].data) = ret.arg.next.static_map[key].checksum

\* A static map holds, for each of its keys, the directory of the key as a Dir.
AncestorClosed(static_map) ==
    \A key \in DOMAIN static_map :
        StaticParent(key) # "" =>
            /\ StaticParent(key) \in DOMAIN static_map
            /\ static_map[StaticParent(key)] = Dir

\* C36: the static map of next is ancestor-closed, during the walk and after
\* it; and in the stale list copy_static_files takes after the walk, every
\* entry curr holds below a stale directory stands before the directory.
C36_AncestorClosedAndChildrenFirst ==
    /\ AncestorClosed(next.static_map)
    /\ (ret.op = "copy_static_files" /\ ret.val = "Ok") =>
          \A i \in DOMAIN ret.stale_files :
              ~ret.stale_files[i][2] =>
                  \A key \in DOMAIN curr.static_map :
                      StaticParent(key) = ret.stale_files[i][1] =>
                          \E j \in 1..(i - 1) : ret.stale_files[j][1] = key

\* A run after the directory a was removed from the static tree: curr tracks
\* a and a/b.txt, the walk recorded neither, and the copy of the file was
\* removed from the output directory before the copy of the directory.
C36_Witness ==
    /\ ret.op = "copy_static_files"
    /\ ret.val = "Ok"
    /\ ret.stale_files = <<<<"a/b.txt", TRUE>>, <<"a", FALSE>>>>
    /\ ret.removed = <<"a/b.txt", "a">>
    /\ AncestorClosed(curr.static_map)
    /\ "a/b.txt" \in DOMAIN curr.static_map

(***************************************************************************)
(* Properties of the two generations                                       *)
(***************************************************************************)

\* C32: the value fast_set_next_bulk_and_check_if_changed returns equals what
\* bulk_has_changed answers right after it, for every bulk map of curr and
\* every list of paths.
C32_ReturnedFlagIsBulkHasChanged ==
    ret.op = "fast_set_next_bulk_and_check_if_changed" =>
        ret.val = bulk_has_changed(curr, next)

\* C33: curr is changed by no operation of the store other than a commit
\* after a successful write, which makes it the next of before; every other
\* operation leaves curr as from_file loaded it, whether it succeeds or fails.
\* (A process that starts loads curr, a process that ends drops it.)
C33_OnlyCommitChangesCurr ==
    [][curr' # curr =>
          \/ /\ ret'.op = "write_state_file_and_commit"
             /\ ret'.val = "Ok"
             /\ curr' = next
          \/ ret'.op \in {"from_file", "exit"}]_vars

\* A store that loaded a generation from the state file, the bulk map of its
\* next just replaced by set_bulk with another one.
C33_Witness ==
    /\ ret.op = "set_bulk"
    /\ curr.content_map # EmptyMap
    /\ next.bulk_map # EmptyMap
    /\ next.bulk_map # curr.bulk_map
    /\ next.content_map # EmptyMap

\* C37: the run that follows a run whose write_state_file_and_commit
\* succeeded loads the state file and gets, as curr, the generation that run
\* committed, equal in every field: content map, index checksum, and the bulk
\* and static maps with mtime, size and checksum of each File and each Dir.
C37_LoadGivesCommittedGeneration ==
    (ret.op = "from_file" /\ bk.last.committed) =>
        /\ ret.val = "Ok"
        /\ curr = bk.last.gen
        /\ curr.content_map = bk.last.gen.content_map
        /\ curr.index_checksum = bk.last.gen.index_checksum
        /\ curr.bulk_map = bk.last.gen.bulk_map
        /\ curr.static_map = bk.last.gen.static_map

\* A run loaded what the run before committed: a page, the index checksum,
\* a template, a static directory and the file in it.
C37_Witness ==
    /\ ret.op = "from_file"
    /\ bk.last.committed
    /\ curr.content_map # EmptyMap
    /\ curr.index_checksum # None
    /\ "t1" \in DOMAIN curr.bulk_map
    /\ DOMAIN curr.static_map = {"a", "a/b.txt"}
    /\ curr.static_map["a"] = Dir
    /\ curr.static_map["a/b.txt"] = File(1, SizeOf("B"), from_data("B"))

\* C38: next is empty right after a load and right after a commit, and
\* should_rebuild(slug) returns true for every slug next's content map lacks:
\* one not registered since the load or the commit, or one unset again,
\* whatever curr holds for it.
C38_NextIsNoTruthForUnvisited ==
    /\ (ret.op = "from_file" /\ ret.val = "Ok") => next = WebsiteState_default
    /\ (ret.op = "write_state_file_and_commit" /\ ret.val = "Ok") =>
          next = WebsiteState_default
    /\ st = "ok" =>
          \A slug \in Slugs : reg[slug] = None <=> slug \notin DOMAIN next.content_map
    /\ ret.op = "should_rebuild" =>
          (ret.arg \notin DOMAIN next.content_map => ret.val = TRUE)

\* should_rebuild was asked about a slug that curr holds and next lacks, the
\* bulk files being unchanged and another slug being registered.
C38_Witness ==
    /\ ret.op = "should_rebuild"
    /\ ret.val = TRUE
    /\ ret.arg \in DOMAIN curr.content_map
    /\ ret.arg \notin DOMAIN next.content_map
    /\ next.content_map # EmptyMap
    /\ ~bulk_has_changed(curr, next)

====
